---------------------------- MODULE Spec2Model ----------------------------
(***************************************************************************)
(* A model of the m13 packet-processing core (min-labs/m13).               *)
(*                                                                         *)
(* The module holds one state machine per subsystem, each with its own     *)
(* specification over the shared variables:                                *)
(*   SpecHeader   the 32-byte header codec          (m13-core)             *)
(*   SpecSlab     the slab pool and its leases      (m13-mem)              *)
(*   SpecPacer    the token-bucket pacer            (m13-flow)             *)
(*   SpecFountain the fountain encoder and decoder  (m13-raptor, m13-math) *)
(*   SpecLink     a hub and a node on a faithful link (m13-ulk)            *)
(*   SpecTraffic  the same with applications sending payloads              *)
(*   SpecKernel   the same with a third party on the link                  *)
(*   SpecHub, SpecEgress  a hub on its own, ingress and egress             *)
(*   SpecEncoder, SpecFragment, SpecReassembly, SpecJitter  one object each*)
(*   SpecEstimator the rate estimator               (m13-flow)             *)
(*   SpecField    GF(2^8) multiplication and division (m13-math)           *)
(*   SpecPaced, SpecDelay  the link with a fine clock, with partial polls  *)
(*   SpecForged   the link with forged symbols on it                       *)
(*   SpecPool     the link with a node over a small slab pool              *)
(*   SpecReserved the K of a block from its encoder to the decoder built   *)
(*   SpecShort    the link with a short handshake reply on it              *)
(*   SpecQueue    the link with a node that queues several payloads        *)
(*   SpecLong     the link with payloads of two symbols                    *)
(*   SpecOrdered  a handshake message cut and reassembled in order         *)
(*   SpecRepeat   a decoder that hears symbols again                       *)
(* A specification leaves the variables of the other subsystems alone.     *)
(***************************************************************************)
EXTENDS Integers, Sequences, FiniteSets, TLC

VARIABLES
    codec,      \* header codec run: the header, the buffer, from_bytes' result
    slab,       \* SlabAllocator: the free list, the live leases, the last alloc
    pacer,      \* Pacer under test (with its RateEstimator)
    pobs,       \* what the last pacer operation was given and saw
    fountain,   \* fountain run: encoder, symbols in flight, decoder, results
    net,        \* kernel run: the clock, the two kernels, the datagrams in flight
    frag,       \* Assembler under test and what its last ingest returned
    jitter      \* JitterBuffer under test, the clock and what push and pop did

vars == <<codec, slab, pacer, pobs, fountain, net, frag, jitter>>

\* The variables a subsystem's actions leave alone.
notCodec == <<slab, pacer, pobs, fountain, net, frag, jitter>>
notSlab == <<codec, pacer, pobs, fountain, net, frag, jitter>>
notPacer == <<codec, slab, fountain, net, frag, jitter>>
notFountain == <<codec, slab, pacer, pobs, net, frag, jitter>>
notNet == <<codec, slab, pacer, pobs, fountain, frag, jitter>>
notFrag == <<codec, slab, pacer, pobs, fountain, net, jitter>>
notJitter == <<codec, slab, pacer, pobs, fountain, net, frag>>

(***************************************************************************)
(* Arithmetic helpers.                                                     *)
(***************************************************************************)
Min(a, b) == IF a <= b THEN a ELSE b
Max(a, b) == IF a >= b THEN a ELSE b

\* u64::saturating_sub
SatSub(a, b) == IF a >= b THEN a - b ELSE 0

\* The sequence f with its elements computed once.
Eval(f) == f \o <<>>

\* Op applied to the value of x, x computed once.
Then(x, Op(_)) == CHOOSE r \in {Op(v) : v \in {x}} : TRUE

\* A sequence of n copies of x.
Rep(n, x) == Eval([i \in 1..n |-> x])

\* Big-endian bytes of a u16 and of a u32 (u16::to_be_bytes, u32::to_be_bytes).
U16BE(x) == <<(x \div 256) % 256, x % 256>>
U32BE(x) == <<(x \div 16777216) % 256, (x \div 65536) % 256, (x \div 256) % 256, x % 256>>

\* u16::from_be_bytes, u32::from_be_bytes of the bytes of b at 0-based [at, at+n).
FromU16BE(b, at) == b[at + 1] * 256 + b[at + 2]
FromU32BE(b, at) == b[at + 1] * 16777216 + b[at + 2] * 65536 + b[at + 3] * 256 + b[at + 4]

(***************************************************************************)
(* m13-core: the packet header and its codec.                              *)
(***************************************************************************)
M13_MAGIC == 1295066880          \* 0x4D313300
HEADER_SIZE == 32

PacketTypes ==
    {"Data", "Ack", "Handshake", "KeepAlive", "Coded", "ClientHello",
     "HandshakeInit", "HandshakeAuth"}

\* `packet_type as u8`: the enum's discriminant.
PacketTypeByte(t) ==
    CASE t = "Data" -> 1
      [] t = "Ack" -> 2
      [] t = "Handshake" -> 240
      [] t = "KeepAlive" -> 255
      [] t = "Coded" -> 16
      [] t = "ClientHello" -> 17
      [] t = "HandshakeInit" -> 18
      [] t = "HandshakeAuth" -> 19

\* The match of from_bytes on buf[5]; "none" is the `_ => return Err(())` arm.
PacketTypeOfByte(b) ==
    CASE b = 1 -> "Data"
      [] b = 2 -> "Ack"
      [] b = 240 -> "Handshake"
      [] b = 255 -> "KeepAlive"
      [] b = 16 -> "Coded"
      [] b = 17 -> "ClientHello"
      [] b = 18 -> "HandshakeInit"
      [] b = 19 -> "HandshakeAuth"
      [] OTHER -> "none"

\* A plausible slip of to_bytes: the recoder-rank and reserved bytes swapped.
HeaderBytesSwapped(h) ==
    U32BE(h.magic) \o <<h.version, PacketTypeByte(h.packet_type)>> \o U16BE(h.gen_id)
        \o U32BE(h.symbol_id) \o U16BE(h.payload_len)
        \o <<h.reserved, h.recoder_rank>> \o h.auth_tag

\* The 32 bytes to_bytes writes, in order.
HeaderBytes(h) ==
    U32BE(h.magic) \o <<h.version, PacketTypeByte(h.packet_type)>> \o U16BE(h.gen_id)
        \o U32BE(h.symbol_id) \o U16BE(h.payload_len)
        \o <<h.recoder_rank, h.reserved>> \o h.auth_tag

\* M13Header::to_bytes(&self, buf): Err when buf is shorter than 32 bytes,
\* else the first 32 bytes of buf are overwritten and the rest kept.
to_bytes(h, buf) ==
    IF Len(buf) < HEADER_SIZE
        THEN [ok |-> FALSE, buf |-> buf]
        ELSE [ok |-> TRUE,
              buf |-> [i \in 1..Len(buf) |->
                          IF i <= HEADER_SIZE THEN HeaderBytes(h)[i] ELSE buf[i]]]

\* M13Header::from_bytes(buf).  The u32 comparison `magic != M13_MAGIC` is made
\* on the four bytes, which is the same test.
from_bytes(buf) ==
    IF Len(buf) < HEADER_SIZE THEN [ok |-> FALSE]
    ELSE IF SubSeq(buf, 1, 4) # U32BE(M13_MAGIC) THEN [ok |-> FALSE]
    ELSE IF PacketTypeOfByte(buf[6]) = "none" THEN [ok |-> FALSE]
    ELSE [ok |-> TRUE,
          h |-> [magic |-> FromU32BE(buf, 0),
                 version |-> buf[5],
                 packet_type |-> PacketTypeOfByte(buf[6]),
                 gen_id |-> FromU16BE(buf, 6),
                 symbol_id |-> FromU32BE(buf, 8),
                 payload_len |-> FromU16BE(buf, 12),
                 recoder_rank |-> buf[15],
                 reserved |-> buf[16],
                 auth_tag |-> SubSeq(buf, 17, 32)]]

(***************************************************************************)
(* The header codec run: a header is written with to_bytes into a buffer,  *)
(* the buffer may be changed on the way (bytes overwritten, the buffer cut *)
(* short) and is then read with from_bytes.                                *)
(***************************************************************************)
MaxTamper == 1                   \* how many bytes of a buffer are overwritten

\* The bytes written into buffers and header fields.
SampleBytes == {0, 17, 255}
SampleU16 == {4660, 65535}                     \* 0x1234, 0xFFFF
SampleU32 == {16909060, 2147483647}            \* 0x01020304, 0x7FFFFFFF
SampleTags == {Rep(16, 170), [i \in 1..16 |-> i]}
SampleBufLens == {31, 32, 33}

\* The headers of the run: every type tag, the magic always the constant
\* (the struct is built by the crate's own code with M13_MAGIC).
SampleHeaders ==
    [magic : {M13_MAGIC}, version : {1}, packet_type : PacketTypes,
     gen_id : SampleU16, symbol_id : SampleU32, payload_len : {1024},
     recoder_rank : {5}, reserved : {0}, auth_tag : SampleTags]

\* The byte positions (1-based) a run overwrites: the magic, the version, the
\* type, one byte of each later field, a byte after the header.
TamperAt == {1, 4, 5, 6, 8, 12, 14, 16, 32, 33}

CodecIdle == [step |-> "idle"]

\* A header value, before it is written.
CodecNew ==
    [step : {"new"}, h : SampleHeaders, buf : {<<>>}, wrote : {FALSE},
     tampered : {0}, cut : {FALSE}, res : {[ok |-> FALSE]}]

\* header.to_bytes(&mut buf) on a zeroed buffer of n bytes.
HdrToBytes(n) ==
    /\ codec.step = "new"
    /\ LET r == to_bytes(codec.h, Rep(n, 0))
       IN codec' = [codec EXCEPT !.step = "written", !.buf = r.buf, !.wrote = r.ok]
    /\ UNCHANGED notCodec

\* The buffer is changed before it is read: byte i becomes b.
HdrTamper(i, b) ==
    /\ codec.step = "written"
    /\ codec.tampered < MaxTamper
    /\ i <= Len(codec.buf)
    /\ codec.buf[i] # b
    /\ codec' = [codec EXCEPT !.buf[i] = b, !.tampered = @ + 1]
    /\ UNCHANGED notCodec

\* The buffer is cut to its first n bytes before it is read.
HdrTruncate(n) ==
    /\ codec.step = "written"
    /\ n < Len(codec.buf)
    /\ codec' = [codec EXCEPT !.buf = SubSeq(codec.buf, 1, n), !.cut = TRUE]
    /\ UNCHANGED notCodec

\* M13Header::from_bytes(&buf).
HdrFromBytes ==
    /\ codec.step = "written"
    /\ codec' = [codec EXCEPT !.step = "read", !.res = from_bytes(codec.buf)]
    /\ UNCHANGED notCodec

NextHeader ==
    \/ \E n \in SampleBufLens : HdrToBytes(n)
    \/ \E i \in TamperAt, b \in SampleBytes : HdrTamper(i, b)
    \/ \E n \in {0, 5, 31, 32} : HdrTruncate(n)
    \/ HdrFromBytes


(***************************************************************************)
(* m13-mem: the slab pool.  A Frame is a data buffer and a length; the     *)
(* pool is the Vec behind the mutex (alloc pops its last frame, release    *)
(* pushes).  The buffer is FRAME_SIZE = 10240 bytes in the source; the     *)
(* model keeps FrameBytes of them.                                         *)
(***************************************************************************)
SlabCapacity == 2                \* frames of the pool under test
FrameBytes == 2                  \* bytes of a frame the model keeps
MaxFrameLen == 1                 \* the largest value a holder gives `len`

\* Frame::default()
FrameDefault == [data |-> Rep(FrameBytes, 0), len |-> 0]

\* #[derive(Zeroize)] on Frame: the buffer and the length are zeroed.
FrameZeroize(f) == [data |-> [i \in 1..Len(f.data) |-> 0], len |-> 0]

\* A drop that forgets to zeroize.
FrameLeaseDropNoZeroize(pool, f) == Append(pool, f)

\* FrameLease::drop: zeroize the frame, then SlabAllocator::release pushes it.
FrameLeaseDrop(pool, f) == Append(pool, FrameZeroize(f))

\* SlabAllocator::new(capacity): the pre-fault rewrites bytes 0 and
\* FRAME_SIZE-1 with their own value.
SlabNew(capacity) == Rep(capacity, FrameDefault)

\* An alloc that hands out a frame without taking it off the free list.
SlabAllocKeep(pool) ==
    IF Len(pool) = 0
        THEN [some |-> FALSE, pool |-> pool]
        ELSE [some |-> TRUE, pool |-> pool,
              frame |-> [pool[Len(pool)] EXCEPT !.len = 0]]

\* SlabAllocator::alloc: pop a frame, reset its len; None when the list is empty.
SlabAlloc(pool) ==
    IF Len(pool) = 0
        THEN [some |-> FALSE, pool |-> pool]
        ELSE [some |-> TRUE, pool |-> SubSeq(pool, 1, Len(pool) - 1),
              frame |-> [pool[Len(pool)] EXCEPT !.len = 0]]

\* SlabAllocator::available
SlabAvailable(pool) == Len(pool)

SlabIdle == [pool |-> <<>>, leases |-> <<>>, last |-> [kind |-> "none"]]

\* `last` is what the latest alloc returned: the frame as handed out, the
\* number of leases live when it was called, what the alloc before it
\* returned, and whether the frame's previous holder had written to it.
\* `written` marks, for each frame of the free list, whether its last holder
\* dropped it with data or a length in it.
SlabStart ==
    [pool |-> SlabNew(SlabCapacity), leases |-> <<>>,
     last |-> [kind |-> "none"], written |-> Rep(SlabCapacity, FALSE)]

\* let lease = slab.alloc()
DoAlloc ==
    /\ LET r == SlabAlloc(slab.pool)
       IN slab' = [slab EXCEPT
               !.pool = r.pool,
               !.leases = IF r.some THEN Append(@, r.frame) ELSE @,
               !.last = IF r.some
                           THEN [kind |-> "lease", frame |-> r.frame,
                                 live |-> Len(slab.leases),
                                 prev |-> slab.last.kind,
                                 reused |-> slab.written[Len(slab.written)]]
                           ELSE [kind |-> "fail", live |-> Len(slab.leases),
                                 prev |-> slab.last.kind],
               !.written = IF r.some THEN SubSeq(@, 1, Len(@) - 1) ELSE @]
    /\ UNCHANGED notSlab

\* lease.data[at] = b (through DerefMut)
DoWrite(l, at, b) ==
    /\ l \in 1..Len(slab.leases)
    /\ slab.leases[l].data[at] # b
    /\ slab' = [slab EXCEPT !.leases[l].data[at] = b]
    /\ UNCHANGED notSlab

\* lease.len = n
DoSetLen(l, n) ==
    /\ l \in 1..Len(slab.leases)
    /\ slab.leases[l].len # n
    /\ slab' = [slab EXCEPT !.leases[l].len = n]
    /\ UNCHANGED notSlab

\* The lease goes out of scope.
DoDrop(l) ==
    /\ l \in 1..Len(slab.leases)
    /\ slab' = [slab EXCEPT
           !.pool = FrameLeaseDrop(slab.pool, slab.leases[l]),
           !.leases = [i \in 1..(Len(@) - 1) |-> IF i < l THEN @[i] ELSE @[i + 1]],
           !.written = Append(@, slab.leases[l] # FrameDefault)]
    /\ UNCHANGED notSlab

NextSlab ==
    \/ DoAlloc
    \/ \E l \in 1..SlabCapacity, at \in 1..FrameBytes, b \in {0, 255} : DoWrite(l, at, b)
    \/ \E l \in 1..SlabCapacity, n \in 0..MaxFrameLen : DoSetLen(l, n)
    \/ \E l \in 1..SlabCapacity : DoDrop(l)


(***************************************************************************)
(* m13-flow: the windowed filters, the rate estimator and the pacer.       *)
(* Times are microseconds, rates bits or bytes per second, as in the       *)
(* source.                                                                 *)
(***************************************************************************)
FILTER_SLOTS == 10               \* samples: [Option<(u64, u64)>; 10]
BTL_BW_WINDOW == 10000000        \* 10 s
RT_PROP_WINDOW == 10000000
STARTUP_GAIN == 289              \* pacing_gain, scaled by 100
FALLBACK_BW == 1000000           \* bw when the filter holds nothing
MICROS == 1000000

\* A ring slot is <<>> (None) or <<timestamp_us, value>> (Some).
FilterNew(window_us) ==
    [window_us |-> window_us, samples |-> Rep(FILTER_SLOTS, <<>>), idx |-> 0]

\* WindowedMaxFilter::update / WindowedMinFilter::update: overwrite slot idx.
FilterUpdate(f, val, now) ==
    [f EXCEPT !.samples[f.idx + 1] = <<now, val>>,
              !.idx = (f.idx + 1) % FILTER_SLOTS]

\* The slots that hold a sample not older than the window.
FilterLive(f, now) ==
    {i \in 1..FILTER_SLOTS :
        /\ f.samples[i] # <<>>
        /\ SatSub(now, f.samples[i][1]) <= f.window_us}

\* WindowedMaxFilter::get_best: the largest live value, 0 when there is none.
MaxFilterBest(f, now) ==
    LET live == FilterLive(f, now)
    IN IF live = {} THEN 0
       ELSE LET i == CHOOSE i \in live : \A j \in live : f.samples[j][2] <= f.samples[i][2]
            IN f.samples[i][2]

\* RateEstimator::new
EstimatorNew ==
    [btl_bw_filter |-> FilterNew(BTL_BW_WINDOW),
     rt_prop_filter |-> FilterNew(RT_PROP_WINDOW),
     pacing_gain |-> STARTUP_GAIN]

\* RateEstimator::on_ack
EstimatorOnAck(e, delivered_bps, rtt_us, now) ==
    [e EXCEPT !.btl_bw_filter = FilterUpdate(@, delivered_bps, now),
              !.rt_prop_filter = FilterUpdate(@, rtt_us, now)]

\* RateEstimator::get_pacing_rate_bps
PacingRateBps(e, now) ==
    LET btl_bw == MaxFilterBest(e.btl_bw_filter, now)
        bw == IF btl_bw = 0 THEN FALLBACK_BW ELSE btl_bw
    IN (bw * e.pacing_gain) \div 100

\* (rate * delta) / 1_000_000 as the source computes it in u128, evaluated
\* without a product above 2^31: delta = ds*10^6 + r1*10^3 + r0 and
\* rate = a1*10^3 + a0.
MulDivMicro(rate, delta) ==
    LET ds == delta \div MICROS
        r == delta % MICROS
        r1 == r \div 1000
        r0 == r % 1000
        a1 == rate \div 1000
        a0 == rate % 1000
    IN rate * ds + a1 * r1 + ((a1 * r0 + a0 * r1 + ((a0 * r0) \div 1000)) \div 1000)

\* Pacer::new(min_cbr_bps)
PacerNew(min_cbr_bps) ==
    [estimator |-> EstimatorNew, last_update_us |-> 0, tokens |-> 0,
     min_rate_floor |-> min_cbr_bps \div 8]

\* target_rate of a tick: max(estimator rate / 8, CBR floor), bytes per second.
PacerTargetRate(p, now_us) ==
    Max(PacingRateBps(p.estimator, now_us) \div 8, p.min_rate_floor)

\* A tick that forgets the burst cap.
PacerTickNoCap(p, now_us) ==
    IF p.last_update_us = 0
        THEN [p EXCEPT !.last_update_us = now_us]
        ELSE LET delta == SatSub(now_us, p.last_update_us)
                 target_rate == PacerTargetRate(p, now_us)
             IN [p EXCEPT !.last_update_us = now_us,
                          !.tokens = p.tokens + MulDivMicro(target_rate, delta)]

\* Pacer::tick(now_us): the first call only primes last_update_us.
PacerTick(p, now_us) ==
    IF p.last_update_us = 0
        THEN [p EXCEPT !.last_update_us = now_us]
        ELSE LET delta == SatSub(now_us, p.last_update_us)
                 target_rate == PacerTargetRate(p, now_us)
                 new_tokens == MulDivMicro(target_rate, delta)
                 max_burst == target_rate \div 10
             IN [p EXCEPT !.last_update_us = now_us,
                          !.tokens = Min(p.tokens + new_tokens, max_burst)]

\* A consume that floors the balance at zero.
PacerConsumeFloored(p, bytes) == [p EXCEPT !.tokens = Max(0, @ - bytes)]

\* Pacer::consume(bytes)
PacerConsume(p, bytes) == [p EXCEPT !.tokens = @ - bytes]

\* A gate that is always open.
PacerChaffAlways(p, packet_mtu) == TRUE

\* Pacer::chaff_needed(packet_mtu)
PacerChaffNeeded(p, packet_mtu) == p.tokens >= packet_mtu

\* Pacer::on_ack
PacerOnAck(p, delivered_bps, rtt_us, now) ==
    [p EXCEPT !.estimator = EstimatorOnAck(@, delivered_bps, rtt_us, now)]

(***************************************************************************)
(* The pacer run: a caller with a monotonic clock calls tick, consume,     *)
(* chaff_needed and on_ack in any order.  pobs records, for the latest     *)
(* call, what it was given and what the pacer held before it.              *)
(***************************************************************************)
MaxAdvance == 2                  \* clock advances in a run
MaxAcks == 1                     \* on_ack calls in a run
MaxConsumes == 1                 \* consume calls in a run

SampleFloors == {100000, 10000000}             \* min_cbr_bps: the test's, the kernel's
SampleSteps == {100000, 1000000, 11000000}     \* clock advances, microseconds
SampleBw == {4000000}                          \* delivered_bps of an ack
SampleRtt == {50000}
SampleConsume == {1000, 50000}
SampleMtus == {0, 1000, 36125}

PacerIdle == [last_update_us |-> 0, tokens |-> 0]
PobsIdle == [op |-> "idle"]

\* What the run records of the calls made: the latest call, its argument and
\* result, the balance before it, and the rate, elapsed time and ceiling of
\* the latest tick.
PobsStart ==
    [op |-> "new", now |-> 0, prev |-> 0, arg |-> 0, res |-> FALSE,
     rate |-> 0, delta |-> 0, effective |-> FALSE,
     ticked |-> FALSE, lastcap |-> 0,
     advances |-> 0, acks |-> 0, consumes |-> 0]

\* The caller's clock moves on by d microseconds.
ClockAdvance(d) ==
    /\ pobs.advances < MaxAdvance
    /\ pobs' = [pobs EXCEPT !.now = @ + d, !.advances = @ + 1, !.op = "advance"]
    /\ UNCHANGED pacer
    /\ UNCHANGED notPacer

\* pacer.tick(now)
DoTick ==
    /\ pacer' = PacerTick(pacer, pobs.now)
    /\ LET rate == PacerTargetRate(pacer, pobs.now)
           eff == pacer.last_update_us # 0
       IN pobs' = [pobs EXCEPT
               !.op = "tick", !.prev = pacer.tokens, !.rate = rate,
               !.delta = SatSub(pobs.now, pacer.last_update_us),
               !.effective = eff,
               !.ticked = @ \/ eff,
               !.lastcap = IF eff THEN rate \div 10 ELSE @]
    /\ UNCHANGED notPacer

\* pacer.consume(bytes)
DoConsume(bytes) ==
    /\ pobs.consumes < MaxConsumes
    /\ pacer' = PacerConsume(pacer, bytes)
    /\ pobs' = [pobs EXCEPT !.op = "consume", !.prev = pacer.tokens, !.arg = bytes,
                            !.consumes = @ + 1]
    /\ UNCHANGED notPacer

\* pacer.chaff_needed(mtu)
DoChaffNeeded(mtu) ==
    /\ pobs' = [pobs EXCEPT !.op = "chaff", !.prev = pacer.tokens, !.arg = mtu,
                            !.res = PacerChaffNeeded(pacer, mtu)]
    /\ UNCHANGED pacer
    /\ UNCHANGED notPacer

\* pacer.on_ack(delivered_bps, rtt_us, now)
DoOnAck(bps, rtt) ==
    /\ pobs.acks < MaxAcks
    /\ pacer' = PacerOnAck(pacer, bps, rtt, pobs.now)
    /\ pobs' = [pobs EXCEPT !.op = "on_ack", !.prev = pacer.tokens, !.arg = bps,
                            !.acks = @ + 1]
    /\ UNCHANGED notPacer

NextPacer ==
    \/ \E d \in SampleSteps : ClockAdvance(d)
    \/ DoTick
    \/ \E b \in SampleConsume : DoConsume(b)
    \/ \E m \in SampleMtus : DoChaffNeeded(m)
    \/ \E bps \in SampleBw, rtt \in SampleRtt : DoOnAck(bps, rtt)

(***************************************************************************)
(* The estimator run: a caller with a monotonic clock gives a              *)
(* RateEstimator delivered-bandwidth samples and asks it for the pacing    *)
(* rate.  pacer holds the estimator; pobs holds the clock, every sample    *)
(* given so far as <<timestamp_us, delivered_bps>> and the latest rate.    *)
(***************************************************************************)
MaxSamples == 11                 \* on_ack calls in a run: one more than the ring holds
MaxWindowSteps == 1              \* clock advances in a run

SampleDelivered == {2000000, 4000000}              \* the test's 2 Mbps, and twice that
SampleWindowSteps == {BTL_BW_WINDOW, BTL_BW_WINDOW + 1}

EstimatorStart ==
    [op |-> "new", now |-> 0, given |-> <<>>, rate |-> 0, advances |-> 0]

\* The caller's clock moves on by d microseconds.
WindowAdvance(d) ==
    /\ pobs.advances < MaxWindowSteps
    /\ pobs' = [pobs EXCEPT !.op = "advance", !.now = @ + d, !.advances = @ + 1]
    /\ UNCHANGED pacer
    /\ UNCHANGED notPacer

\* bbr.on_ack(delivered_bps, rtt_us, now)
GiveSample(bps, rtt) ==
    /\ Len(pobs.given) < MaxSamples
    /\ pacer' = EstimatorOnAck(pacer, bps, rtt, pobs.now)
    /\ pobs' = [pobs EXCEPT !.op = "on_ack", !.given = Append(@, <<pobs.now, bps>>)]
    /\ UNCHANGED notPacer

\* bbr.get_pacing_rate_bps(now)
AskRate ==
    /\ pobs' = [pobs EXCEPT !.op = "rate", !.rate = PacingRateBps(pacer, pobs.now)]
    /\ UNCHANGED pacer
    /\ UNCHANGED notPacer

NextEstimator ==
    \/ \E d \in SampleWindowSteps : WindowAdvance(d)
    \/ \E bps \in SampleDelivered, rtt \in SampleRtt : GiveSample(bps, rtt)
    \/ AskRate

(***************************************************************************)
(* m13-math: GF(2^8) arithmetic over the Rijndael polynomial, with the     *)
(* exponent and logarithm tables of generator 3.                           *)
(***************************************************************************)
POLY == 283                      \* 0x11B

\* a ^ b on n-bit values.
RECURSIVE BitXor(_, _, _)
BitXor(a, b, n) ==
    IF n = 0 THEN 0
    ELSE ((a + b) % 2) + 2 * BitXor(a \div 2, b \div 2, n - 1)

\* a & b on n-bit values.
RECURSIVE BitAnd(_, _, _)
BitAnd(a, b, n) ==
    IF n = 0 THEN 0
    ELSE ((a % 2) * (b % 2)) + 2 * BitAnd(a \div 2, b \div 2, n - 1)

\* u8 ^ u8, tabulated: XorTable[a + 1][b + 1] is a ^ b.
XorTable == Eval([a \in 1..256 |-> Eval([b \in 1..256 |-> BitXor(a - 1, b - 1, 8)])])

\* One round of gen_tables: x * 3 = xtime(x) ^ x, on u16.
TimesThree(x) ==
    LET double_x == 2 * x
        reduced == IF BitAnd(double_x, 256, 9) # 0 THEN BitXor(double_x, POLY, 9)
                   ELSE double_x
    IN  BitXor(reduced, x, 9)

\* The values x takes in n iterations of gen_tables' loop, from x on: each
\* is TimesThree of the one before.
RECURSIVE PowersFrom(_, _)
PowersFrom(n, x) ==
    IF n = 1 THEN <<x>>
    ELSE LET h == n \div 2
             left == PowersFrom(h, x)
         IN  left \o PowersFrom(n - h, TimesThree(left[h]))

\* log[x] after the loop: the last iteration i whose x was `x`, 0 if none.
LogOf(powers, x) ==
    LET at == {i \in 0..254 : powers[i + 1] = x}
    IN  IF at = {} THEN 0 ELSE CHOOSE i \in at : \A k \in at : k <= i

\* The tables the loop leaves: exp[i] and exp[i + 255] are x at iteration i
\* (as u8), exp[510] = exp[0], exp[511] = exp[1]; log[x] = i, log[0] = 0.
\* The tables are sequences: exp[j] of the source is exp[j + 1] here, and so
\* for log.
TablesOf(powers) ==
    [exp |-> Eval([n \in 1..512 |-> powers[((n - 1) % 255) + 1] % 256]),
     log |-> Eval([n \in 1..256 |-> LogOf(powers, n - 1)])]

\* gen_tables(): Powers[i + 1] is x at iteration i.
gen_tables == TablesOf(PowersFrom(255, 1))

TABLES == gen_tables

\* GfSymbol::add, sub.
GfAdd(a, b) == XorTable[a + 1][b + 1]
GfSub(a, b) == GfAdd(a, b)

\* GfSymbol::mul and inv, over tables t.
TableMul(t, a, b) ==
    IF a = 0 \/ b = 0 THEN 0
    ELSE t.exp[t.log[a + 1] + t.log[b + 1] + 1]

TableInv(t, a) ==
    IF a = 0 THEN 0
    ELSE t.exp[255 - t.log[a + 1] + 1]

GfMul(a, b) == TableMul(TABLES, a, b)
GfInv(a) == TableInv(TABLES, a)

\* (b as i8).wrapping_shl(7).wrapping_shr(7) as u8: bit 0 of b moves to the
\* sign bit and the arithmetic shift right spreads it over the byte.
SignMask(b) ==
    LET shl == (128 * b) % 256
        signed == IF shl >= 128 THEN shl - 256 ELSE shl
        shr == IF signed < 0 THEN -1 ELSE 0
    IN  shr % 256

\* A mul_safe whose doubling is not reduced by the polynomial.
RECURSIVE MulSafeUnreduced(_, _, _, _)
MulSafeUnreduced(p, a, b, n) ==
    IF n = 0 THEN p
    ELSE MulSafeUnreduced(XorTable[p + 1][BitAnd(a, SignMask(b), 8) + 1],
                          (2 * a) % 256, b \div 2, n - 1)

\* The loop of GfSymbol::mul_safe with n rounds to go.
RECURSIVE MulSafeLoop(_, _, _, _)
MulSafeLoop(p, a, b, n) ==
    IF n = 0 THEN p
    ELSE MulSafeLoop(XorTable[p + 1][BitAnd(a, SignMask(b), 8) + 1],
                     IF BitAnd(a, 128, 8) # 0
                     THEN XorTable[((2 * a) % 256) + 1][27 + 1]
                     ELSE (2 * a) % 256,
                     b \div 2, n - 1)

\* GfSymbol::mul_safe
mul_safe(a, b) == MulSafeLoop(0, a, b, 8)

(***************************************************************************)
(* The field run: two bytes are chosen and a caller multiplies them with   *)
(* mul and with mul_safe and divides the product by the second again.      *)
(* A result not yet computed is <<>>.                                      *)
(***************************************************************************)
FieldInput(a, b) ==
    [step |-> "field", a |-> a, b |-> b,
     product |-> <<>>, safe |-> <<>>, inverse |-> <<>>, quotient |-> <<>>]

\* a.mul(b)
DoMul ==
    /\ fountain.step = "field"
    /\ fountain.product = <<>>
    /\ fountain' = [fountain EXCEPT !.product = <<GfMul(fountain.a, fountain.b)>>]
    /\ UNCHANGED notFountain

\* a.mul_safe(b)
DoMulSafe ==
    /\ fountain.step = "field"
    /\ fountain.safe = <<>>
    /\ fountain' = [fountain EXCEPT !.safe = <<mul_safe(fountain.a, fountain.b)>>]
    /\ UNCHANGED notFountain

\* a.mul(b).mul(b.inv())
DoDivide ==
    /\ fountain.step = "field"
    /\ fountain.product # <<>>
    /\ fountain.quotient = <<>>
    /\ fountain' = [fountain EXCEPT
                       !.inverse = <<GfInv(fountain.b)>>,
                       !.quotient = <<GfMul(fountain.product[1], GfInv(fountain.b))>>]
    /\ UNCHANGED notFountain

NextField ==
    \/ DoMul
    \/ DoMulSafe
    \/ DoDivide

(***************************************************************************)
(* m13-cipher: the coefficient keystream.  generate_coefficients encrypts  *)
(* `count` zero bytes under a key and nonce built from (seed, gen_id), so  *)
(* its result is the first `count` bytes of a keystream that depends on    *)
(* (seed, gen_id) only.  The cipher is not computed here: a keystream is a *)
(* byte function drawn from KeystreamSamples, each a list of repeating     *)
(* byte patterns for the seeds of the parity rows (gen_id << 16 | index)   *)
(* and one for the seeds of the coded symbols (the symbol id).             *)
(***************************************************************************)
KeystreamSamples ==
    { [parity |-> << <<200, 5, 129>>, <<3, 250, 77>> >>,
       coded  |-> << <<87, 131, 2>>, <<19, 0, 255>>, <<142, 66, 7>>, <<5, 200, 31>> >>],
      [parity |-> << <<200, 200, 200>> >>,
       coded  |-> << <<7, 1, 2>>, <<3, 1, 2>>, <<6, 2, 4>>, <<5, 1, 4>> >>],
      [parity |-> << <<128, 100, 0>>, <<129, 0, 128>> >>,
       coded  |-> << <<0, 9, 0>>, <<255, 255, 1>>, <<1, 0, 0>> >>] }

KeystreamByte(ks, seed, gen_id, i) ==
    LET pats == IF seed >= 65536 THEN ks.parity ELSE ks.coded
        pat == pats[((seed + gen_id) % Len(pats)) + 1]
    IN  pat[(i % Len(pat)) + 1]

generate_coefficients(ks, seed, gen_id, count) ==
    Eval([i \in 1..count |-> KeystreamByte(ks, seed, gen_id, i - 1)])

(***************************************************************************)
(* m13-raptor: the fountain encoder.                                       *)
(***************************************************************************)
MAX_BLOCK_SYMBOLS == 256

\* S, the number of LDPC constraint rows, and the decoder's spare rows above
\* L: 16 and 8 in the source, scaled down here.
LDPC_OVERHEAD_S == 2
SPARE_ROWS == 2

\* (gen_id as u32) << 16 | (parity_idx as u32), for parity_idx < 2^16.
ParitySeed(gen_id, parity_idx) == gen_id * 65536 + parity_idx

\* Symbol idx (0-based) of a flat array of symbol_size-byte symbols.
SymbolAt(bytes, idx, symbol_size) ==
    SubSeq(bytes, idx * symbol_size + 1, idx * symbol_size + symbol_size)

XorBytes(u, v) == Eval([c \in 1..Len(u) |-> GfAdd(u[c], v[c])])

\* The XOR of the source symbols j in [j0, k) whose neighbour byte exceeds 128.
RECURSIVE ParityAcc(_, _, _, _, _)
ParityAcc(source, neighbors, j0, k, symbol_size) ==
    IF j0 >= k THEN Rep(symbol_size, 0)
    ELSE IF j0 + 1 = k
    THEN IF neighbors[j0 + 1] > 128 THEN SymbolAt(source, j0, symbol_size)
         ELSE Rep(symbol_size, 0)
    ELSE XorBytes(ParityAcc(source, neighbors, j0, (j0 + k) \div 2, symbol_size),
                  ParityAcc(source, neighbors, (j0 + k) \div 2, k, symbol_size))

RECURSIVE ParitySymbols(_, _, _, _, _, _)
ParitySymbols(ks, source, i, k, symbol_size, gen_id) ==
    IF i >= LDPC_OVERHEAD_S THEN <<>>
    ELSE LET neighbors == generate_coefficients(ks, ParitySeed(gen_id, k + i), gen_id, k)
         IN  ParityAcc(source, neighbors, 0, k, symbol_size)
                 \o ParitySymbols(ks, source, i + 1, k, symbol_size, gen_id)

\* FountainEncoder::new(data, symbol_size, gen_id).
FountainEncoderNew(ks, data, symbol_size, gen_id) ==
    IF symbol_size = 0 THEN [ok |-> FALSE]
    ELSE LET block_size_k == (Len(data) + symbol_size - 1) \div symbol_size
             source == Eval([i \in 1..(block_size_k * symbol_size) |->
                                IF i <= Len(data) THEN data[i] ELSE 0])
         IN  IF block_size_k > MAX_BLOCK_SYMBOLS THEN [ok |-> FALSE]
             ELSE [ok |-> TRUE,
                   enc |-> [intermediate_symbols |->
                                source \o ParitySymbols(ks, source, 0, block_size_k,
                                                        symbol_size, gen_id),
                            symbol_size |-> symbol_size,
                            block_size_k |-> block_size_k,
                            extended_size_l |-> block_size_k + LDPC_OVERHEAD_S,
                            gen_id |-> gen_id,
                            cursor |-> 0]]

k_to_reserved(k) == IF k > 255 THEN 255 ELSE k % 256

\* The repair payload: the sum over i in [i0, L) of coeff[i] * intermediate[i].
RECURSIVE RepairSum(_, _, _)
RepairSum(enc, coeffs, i0) ==
    IF i0 >= enc.extended_size_l THEN Rep(enc.symbol_size, 0)
    ELSE LET rest == RepairSum(enc, coeffs, i0 + 1)
             chunk == SymbolAt(enc.intermediate_symbols, i0, enc.symbol_size)
         IN  IF coeffs[i0 + 1] = 0 THEN rest
             ELSE Eval([j \in 1..enc.symbol_size |->
                           GfAdd(rest[j], GfMul(coeffs[i0 + 1], chunk[j]))])

\* FountainEncoder::next_packet(): the header and payload of symbol `cursor`.
next_packet(ks, enc) ==
    LET sym_id == enc.cursor
        systematic == sym_id < enc.block_size_k
        payload == IF systematic
                   THEN SymbolAt(enc.intermediate_symbols, sym_id, enc.symbol_size)
                   ELSE RepairSum(enc, generate_coefficients(ks, sym_id, enc.gen_id,
                                                             enc.extended_size_l), 0)
    IN  [enc |-> [enc EXCEPT !.cursor = sym_id + 1],
         header |-> [magic |-> M13_MAGIC, version |-> 1,
                     packet_type |-> IF systematic THEN "Data" ELSE "Coded",
                     gen_id |-> enc.gen_id, symbol_id |-> sym_id,
                     payload_len |-> Len(payload) % 65536,
                     recoder_rank |-> 0,
                     reserved |-> k_to_reserved(enc.block_size_k),
                     auth_tag |-> Rep(16, 0)],
         payload |-> payload]

(***************************************************************************)
(* m13-raptor: the fountain decoder.  A matrix is a sequence of rows, each *)
(* a sequence of bytes; row r and column c of the source are [r+1][c+1].   *)
(***************************************************************************)
\* GfMatrix::new(rows, cols).
GfMatrixNew(rows, cols) == Rep(rows, Rep(cols, 0))

\* The constraint row of parity symbol K + i: 1 in column K + i and in each
\* column j < K whose neighbour byte exceeds 128.
LdpcRow(ks, i, k, gen_id) ==
    LET neighbors == generate_coefficients(ks, ParitySeed(gen_id, k + i), gen_id, k)
    IN  Eval([c \in 1..(k + LDPC_OVERHEAD_S) |->
                 IF c - 1 = k + i THEN 1
                 ELSE IF c - 1 < k /\ neighbors[c] > 128 THEN 1
                 ELSE 0])

\* FountainDecoder::new(block_size_k, symbol_size, gen_id).
FountainDecoderNew(ks, block_size_k, symbol_size, gen_id) ==
    LET extended_size_l == block_size_k + LDPC_OVERHEAD_S
        capacity == extended_size_l + SPARE_ROWS
    IN  [block_size_k |-> block_size_k,
         extended_size_l |-> extended_size_l,
         symbol_size |-> symbol_size,
         gen_id |-> gen_id,
         matrix |-> Eval([r \in 1..capacity |->
                             IF r <= LDPC_OVERHEAD_S
                             THEN LdpcRow(ks, r - 1, block_size_k, gen_id)
                             ELSE Rep(extended_size_l, 0)]),
         symbols |-> GfMatrixNew(capacity, symbol_size),
         count |-> LDPC_OVERHEAD_S,
         seen_symbols |-> <<>>,
         is_solved |-> FALSE]

\* The row of coefficients absorb builds for a symbol id.
RowCoeffs(ks, dec, symbol_id) ==
    IF symbol_id < dec.block_size_k
    THEN Eval([c \in 1..dec.extended_size_l |-> IF c - 1 = symbol_id THEN 1 ELSE 0])
    ELSE generate_coefficients(ks, symbol_id, dec.gen_id, dec.extended_size_l)

\* An absorb that does not look the symbol id up.
absorbAgain(ks, dec, symbol_id, gen_id, payload) ==
    IF gen_id # dec.gen_id THEN [err |-> "WireFormatError", dec |-> dec]
    ELSE IF dec.count >= Len(dec.matrix) THEN [err |-> "none", dec |-> dec]
    ELSE [err |-> "none",
          dec |-> [dec EXCEPT
                     !.matrix[dec.count + 1] = RowCoeffs(ks, dec, symbol_id),
                     !.symbols[dec.count + 1] =
                         Eval([c \in 1..dec.symbol_size |->
                                  IF c <= Len(payload) THEN payload[c] ELSE 0]),
                     !.count = dec.count + 1,
                     !.seen_symbols = Append(dec.seen_symbols, symbol_id)]]

\* FountainDecoder::absorb(symbol_id, gen_id, payload).
absorb(ks, dec, symbol_id, gen_id, payload) ==
    IF gen_id # dec.gen_id THEN [err |-> "WireFormatError", dec |-> dec]
    ELSE IF \E n \in 1..Len(dec.seen_symbols) : dec.seen_symbols[n] = symbol_id
    THEN [err |-> "none", dec |-> dec]
    ELSE IF dec.count >= Len(dec.matrix) THEN [err |-> "none", dec |-> dec]
    ELSE [err |-> "none",
          dec |-> [dec EXCEPT
                     !.matrix[dec.count + 1] = RowCoeffs(ks, dec, symbol_id),
                     !.symbols[dec.count + 1] =
                         Eval([c \in 1..dec.symbol_size |->
                                  IF c <= Len(payload) THEN payload[c] ELSE 0]),
                     !.count = dec.count + 1,
                     !.seen_symbols = Append(dec.seen_symbols, symbol_id)]]

\* FountainDecoder::is_decodable().
is_decodable(dec) == dec.count >= dec.extended_size_l

\* A row swap that is forgotten.
SwapRowsKeep(m, i, j) == m

\* decode's swap of rows i and j (1-based) of a matrix.
SwapRows(m, i, j) == [m EXCEPT ![i] = m[j], ![j] = m[i]]

\* decode's search: the first row at or below pivot_row whose entry in
\* column col_idx is not zero, `rows` when there is none (all 0-based).
FindPivot(a, rows, col_idx, pivot_row) ==
    LET below == {r \in pivot_row..(rows - 1) : a[r + 1][col_idx + 1] # 0}
    IN  IF below = {} THEN rows ELSE CHOOSE r \in below : \A q \in below : r <= q

\* Column c (0-based) of a matrix.
Column(m, c) == Eval([r \in 1..Len(m) |-> m[r][c + 1]])

\* The pivot row times the pivot's inverse, from column `from` on.
NormalizeRow(row, from, inv) ==
    Eval([c \in 1..Len(row) |-> IF c - 1 >= from THEN GfMul(row[c], inv) ELSE row[c]])

\* row - factor * prow, from column `from` on.
SubtractScaled(row, from, factor, prow) ==
    Eval([c \in 1..Len(row) |->
             IF c - 1 >= from THEN GfSub(row[c], GfMul(factor, prow[c])) ELSE row[c]])

\* The matrix with the normalized pivot row prow in place and, in each other
\* row r below `rows` whose factor is not zero, factor * prow subtracted.
ClearColumn(m, factors, rows, from, pivot_row, prow) ==
    Eval([r \in 1..Len(m) |->
             IF r - 1 = pivot_row THEN prow
             ELSE IF r - 1 < rows /\ factors[r] # 0
             THEN SubtractScaled(m[r], from, factors[r], prow)
             ELSE m[r]])

\* One column of decode's elimination, after the swap: a from column col_idx
\* on, b in all its columns.
PivotStep(a1, b1, rows, col_idx, pivot_row, inv) ==
    [a |-> ClearColumn(a1, Column(a1, col_idx), rows, col_idx, pivot_row,
                       NormalizeRow(a1[pivot_row + 1], col_idx, inv)),
     b |-> ClearColumn(b1, Column(a1, col_idx), rows, 0, pivot_row,
                       NormalizeRow(b1[pivot_row + 1], 0, inv))]

\* decode's loop over the columns from col_idx on, with pivot_row the next
\* pivot (both 0-based), over the first `rows` rows of a and b.
RECURSIVE Eliminate(_, _, _, _, _, _)
RECURSIVE EliminateAt(_, _, _, _, _, _, _)
RECURSIVE EliminateSwapped(_, _, _, _, _, _)
RECURSIVE EliminateNext(_, _, _, _, _)

Eliminate(a, b, rows, cols, col_idx, pivot_row) ==
    IF col_idx >= cols \/ pivot_row >= rows THEN [ok |-> TRUE, a |-> a, b |-> b]
    ELSE EliminateAt(a, b, rows, cols, col_idx, pivot_row,
                     FindPivot(a, rows, col_idx, pivot_row))

EliminateAt(a, b, rows, cols, col_idx, pivot_row, curr) ==
    IF curr = rows THEN [ok |-> FALSE]
    ELSE EliminateSwapped(
             IF curr # pivot_row THEN SwapRows(a, pivot_row + 1, curr + 1) ELSE a,
             IF curr # pivot_row THEN SwapRows(b, pivot_row + 1, curr + 1) ELSE b,
             rows, cols, col_idx, pivot_row)

EliminateSwapped(a1, b1, rows, cols, col_idx, pivot_row) ==
    EliminateNext(PivotStep(a1, b1, rows, col_idx, pivot_row,
                            GfInv(a1[pivot_row + 1][col_idx + 1])),
                  rows, cols, col_idx, pivot_row)

EliminateNext(ab, rows, cols, col_idx, pivot_row) ==
    Eliminate(ab.a, ab.b, rows, cols, col_idx + 1, pivot_row + 1)

\* decode's result once the elimination e is done: rows 0..K of b.
DecodeResult(dec, e) ==
    IF ~e.ok THEN [ok |-> FALSE, err |-> "CryptoFailure"]
    ELSE [ok |-> TRUE,
          data |-> Eval([n \in 1..(dec.block_size_k * dec.symbol_size) |->
                            e.b[((n - 1) \div dec.symbol_size) + 1]
                               [((n - 1) % dec.symbol_size) + 1]])]

\* FountainDecoder::decode().
decode(dec) ==
    IF ~is_decodable(dec) THEN [ok |-> FALSE, err |-> "InvalidState"]
    ELSE DecodeResult(dec, Eliminate(dec.matrix, dec.symbols, dec.count,
                                     dec.extended_size_l, 0, 0))

\* A receive_symbol that gives the generation up at the first singular system.
ReceiveDecodedOnce(d, r) ==
    IF r.ok THEN [dec |-> [d EXCEPT !.is_solved = TRUE],
                  res |-> [kind |-> "data", data |-> r.data]]
    ELSE IF r.err = "CryptoFailure"
    THEN [dec |-> [d EXCEPT !.is_solved = TRUE], res |-> [kind |-> "none"]]
    ELSE [dec |-> d, res |-> [kind |-> "err", err |-> r.err]]

\* receive_symbol's match on decode's result r.
ReceiveDecoded(d, r) ==
    IF r.ok THEN [dec |-> [d EXCEPT !.is_solved = TRUE],
                  res |-> [kind |-> "data", data |-> r.data]]
    ELSE IF r.err = "CryptoFailure" THEN [dec |-> d, res |-> [kind |-> "none"]]
    ELSE [dec |-> d, res |-> [kind |-> "err", err |-> r.err]]

\* receive_symbol after absorb returned ab.
ReceiveAbsorbed(ab) ==
    IF ab.err # "none" THEN [dec |-> ab.dec, res |-> [kind |-> "err", err |-> ab.err]]
    ELSE IF is_decodable(ab.dec) /\ ~ab.dec.is_solved
    THEN ReceiveDecoded(ab.dec, decode(ab.dec))
    ELSE [dec |-> ab.dec, res |-> [kind |-> "none"]]

\* FountainDecoder::receive_symbol(symbol_id, payload).
receive_symbol(ks, dec, symbol_id, payload) ==
    ReceiveAbsorbed(absorb(ks, dec, symbol_id, dec.gen_id, payload))

(***************************************************************************)
(* A run of the fountain code: one payload is encoded, the encoder emits   *)
(* symbols, and the channel delivers any of them, each at most once, in    *)
(* any order, to a decoder built with the encoder's parameters.            *)
(***************************************************************************)
MaxSymbols == 5

SampleSymbolSizes == {2}
SampleGenIds == {1}
SampleMessages == {<<77>>, <<255, 128>>, <<1, 200, 9>>}

FountainIdle == [step |-> "idle"]

\* `air` holds the symbols emitted, `arrived` the ids delivered in order and
\* `outs` the payloads receive_symbol returned.
FountainStart(ks, m, symbol_size, gen_id) ==
    LET enc == FountainEncoderNew(ks, m, symbol_size, gen_id).enc
    IN  [step |-> "run", ks |-> ks, msg |-> m, enc |-> enc,
         dec |-> FountainDecoderNew(ks, enc.block_size_k, symbol_size, gen_id),
         air |-> {}, arrived |-> <<>>, outs |-> <<>>, last |-> "none"]

\* The run after next_packet returned p.
Emitted(f, p) ==
    [f EXCEPT !.enc = p.enc,
              !.air = @ \cup {[id |-> p.header.symbol_id, payload |-> p.payload]}]

\* The run after receive_symbol returned r for symbol id.
Delivered(f, id, r) ==
    [f EXCEPT !.dec = r.dec,
              !.arrived = Append(@, id),
              !.outs = IF r.res.kind = "data" THEN Append(@, r.res.data) ELSE @,
              !.last = r.res.kind]

\* let (header, payload) = enc.next_packet()
EncNext ==
    /\ fountain.enc.cursor < MaxSymbols
    /\ fountain' = Emitted(fountain, next_packet(fountain.ks, fountain.enc))
    /\ UNCHANGED notFountain

\* dec.receive_symbol(s.id, s.payload), for a symbol not delivered before.
Deliver(s) ==
    /\ s \in fountain.air
    /\ \A n \in 1..Len(fountain.arrived) : fountain.arrived[n] # s.id
    /\ fountain' = Delivered(fountain, s.id,
                             receive_symbol(fountain.ks, fountain.dec, s.id, s.payload))
    /\ UNCHANGED notFountain

NextFountain ==
    \/ EncNext
    \/ \E s \in fountain.air : Deliver(s)

(***************************************************************************)
(* A decoder that hears symbols again: the channel delivers any symbol     *)
(* emitted so far, whether or not it was delivered before, up to           *)
(* MaxArrivals deliveries; the run keeps the decoder as it was before the  *)
(* last delivery.                                                          *)
(***************************************************************************)
MaxArrivals == 5

RepeatStart(ks, m, symbol_size, gen_id) ==
    [before |-> FountainDecoderNew(ks, 1, symbol_size, gen_id)]
        @@ FountainStart(ks, m, symbol_size, gen_id)

\* dec.receive_symbol(s.id, s.payload), for any symbol emitted.
DeliverAgain(s) ==
    /\ s \in fountain.air
    /\ Len(fountain.arrived) < MaxArrivals
    /\ fountain' = [Delivered(fountain, s.id,
                              receive_symbol(fountain.ks, fountain.dec, s.id, s.payload))
                        EXCEPT !.before = fountain.dec]
    /\ UNCHANGED notFountain

NextRepeat ==
    \/ EncNext
    \/ \E s \in fountain.air : DeliverAgain(s)

(***************************************************************************)
(* m13-pqc and m13-cipher as the kernel uses them.  The primitives are not *)
(* computed: key material is named.  Keypair kp has the encapsulation key  *)
(* bytes KemPublic(kp); an encapsulation to kp with the r-th draw of the   *)
(* sender's rng has the ciphertext KemCiphertext(kp, r); a shared secret   *)
(* is the sequence <<kp, accepted>> \o ct, with accepted = 0 for the       *)
(* secret ML-KEM's implicit rejection derives from a ciphertext that was   *)
(* not made for kp.  The byte lengths are those of the source scaled down. *)
(***************************************************************************)
KYBER_PK_LEN_1024 == 3           \* 1568 in the source
KYBER_CT_LEN_1024 == 3           \* 1568 in the source
DILITHIUM_SIG_LEN_87 == 4        \* 4627 in the source

KemPublic(kp) == Rep(KYBER_PK_LEN_1024, 16 + kp)
KemCiphertext(kp, r) == Rep(KYBER_CT_LEN_1024, 32 + 16 * kp + r)

\* The keypair an encapsulation key belongs to, 0 when EncapsKey::try_from_bytes
\* rejects the bytes.
KeypairOfPublic(pk_bytes) ==
    IF /\ Len(pk_bytes) = KYBER_PK_LEN_1024
       /\ \A i \in 1..Len(pk_bytes) : pk_bytes[i] = pk_bytes[1]
       /\ pk_bytes[1] \in 17..31
    THEN pk_bytes[1] - 16 ELSE 0

\* The keypair a ciphertext was made for, 0 for bytes no encapsulation made.
KeypairOfCiphertext(ct_bytes) ==
    IF /\ Len(ct_bytes) = KYBER_CT_LEN_1024
       /\ \A i \in 1..Len(ct_bytes) : ct_bytes[i] = ct_bytes[1]
       /\ ct_bytes[1] \in 48..255
    THEN (ct_bytes[1] - 32) \div 16 ELSE 0

\* kyber_encapsulate(pk_bytes, rng), rng at its r-th draw.
kyber_encapsulate(pk_bytes, r) ==
    IF KeypairOfPublic(pk_bytes) = 0 THEN [ok |-> FALSE]
    ELSE [ok |-> TRUE,
          ct |-> KemCiphertext(KeypairOfPublic(pk_bytes), r),
          ss |-> <<KeypairOfPublic(pk_bytes), 1>>
                     \o KemCiphertext(KeypairOfPublic(pk_bytes), r)]

\* kyber_decapsulate(keypair, ct_bytes): Err for a wrong length only; a
\* ciphertext made for another keypair yields the implicit-rejection secret.
kyber_decapsulate(kp, ct_bytes) ==
    IF Len(ct_bytes) # KYBER_CT_LEN_1024 THEN [ok |-> FALSE]
    ELSE [ok |-> TRUE,
          ss |-> <<kp, IF KeypairOfCiphertext(ct_bytes) = kp THEN 1 ELSE 0>> \o ct_bytes]

RECURSIVE SumBytes(_, _)
SumBytes(bytes, i) == IF i > Len(bytes) THEN 0 ELSE bytes[i] + SumBytes(bytes, i + 1)

\* dsa_sign(msg, sk_bytes): the signature of identity sk over msg.
dsa_sign(msg, sk) == Rep(DILITHIUM_SIG_LEN_87, (SumBytes(msg, 1) + sk) % 256)

\* dsa_verify(pk_bytes, sig_bytes, msg): Ok(()) is TRUE.
dsa_verify(pk, sig_bytes, msg) ==
    /\ Len(sig_bytes) = DILITHIUM_SIG_LEN_87
    /\ sig_bytes = dsa_sign(msg, pk)

\* M13Cipher::construct_nonce(header)
construct_nonce(header) == U16BE(header.gen_id) \o U32BE(header.symbol_id) \o Rep(6, 0)

\* The associated data of both directions: the header bytes, the tag zeroed.
HeaderAad(header) ==
    Eval([i \in 1..HEADER_SIZE |-> IF i <= 16 THEN HeaderBytes(header)[i] ELSE 0])

\* M13Cipher::encrypt_detached(header, payload) under `key`.  `seals` lists the
\* encryptions made so far; the n-th has the tag and the ciphertext bytes n.
encrypt_detached(seals, key, header, payload) ==
    [seals |-> Append(seals, [key |-> key, nonce |-> construct_nonce(header),
                              aad |-> HeaderAad(header), plain |-> payload]),
     payload |-> Rep(Len(payload), Len(seals) + 1),
     tag |-> Rep(16, Len(seals) + 1)]

\* M13Cipher::decrypt_detached(header, payload) under `key`: AuthFail unless
\* key, nonce, associated data, ciphertext and tag are those of one encryption.
decrypt_detached(seals, key, header, payload) ==
    IF /\ header.auth_tag[1] \in 1..Len(seals)
       /\ header.auth_tag = Rep(16, header.auth_tag[1])
       /\ seals[header.auth_tag[1]].key = key
       /\ seals[header.auth_tag[1]].nonce = construct_nonce(header)
       /\ seals[header.auth_tag[1]].aad = HeaderAad(header)
       /\ payload = Rep(Len(seals[header.auth_tag[1]].plain), header.auth_tag[1])
    THEN [ok |-> TRUE, payload |-> seals[header.auth_tag[1]].plain]
    ELSE [ok |-> FALSE, payload |-> payload]

(***************************************************************************)
(* m13-ulk: fragment reassembly and sessions.  An Option is <<>> for None  *)
(* and <<x>> for Some(x).                                                  *)
(***************************************************************************)
MAX_REASSEMBLY == 10240

\* FragmentAssembler::new()
AssemblerNew == [buffer |-> <<>>, expected_len |-> 0]

\* An ingest that reports the total_len mismatch and keeps the partial buffer.
IngestCopyKeep(a, total_len, offset, data) ==
    IF total_len # a.expected_len
    THEN [asm |-> a, res |-> "InvalidState", full |-> <<>>]
    ELSE IF offset + Len(data) > a.expected_len
    THEN [asm |-> a, res |-> "WireFormatError", full |-> <<>>]
    ELSE IF offset + Len(data) = a.expected_len
    THEN [asm |-> AssemblerNew, res |-> "some",
          full |-> Eval([i \in 1..Len(a.buffer) |->
                            IF i > offset THEN data[i - offset] ELSE a.buffer[i]])]
    ELSE [asm |-> [a EXCEPT !.buffer =
                      Eval([i \in 1..Len(a.buffer) |->
                               IF i > offset /\ i <= offset + Len(data)
                               THEN data[i - offset] ELSE a.buffer[i]])],
          res |-> "none", full |-> <<>>]

\* ingest once the buffer is sized: the copy and the completion test.
IngestCopy(a, total_len, offset, data) ==
    IF total_len # a.expected_len
    THEN [asm |-> [a EXCEPT !.buffer = <<>>], res |-> "InvalidState", full |-> <<>>]
    ELSE IF offset + Len(data) > a.expected_len
    THEN [asm |-> a, res |-> "WireFormatError", full |-> <<>>]
    ELSE IF offset + Len(data) = a.expected_len
    THEN [asm |-> AssemblerNew, res |-> "some",
          full |-> Eval([i \in 1..Len(a.buffer) |->
                            IF i > offset THEN data[i - offset] ELSE a.buffer[i]])]
    ELSE [asm |-> [a EXCEPT !.buffer =
                      Eval([i \in 1..Len(a.buffer) |->
                               IF i > offset /\ i <= offset + Len(data)
                               THEN data[i - offset] ELSE a.buffer[i]])],
          res |-> "none", full |-> <<>>]

\* ingest after the fragment header is read.
IngestAt(a, total_len, offset, data) ==
    IF a.buffer # <<>> THEN IngestCopy(a, total_len, offset, data)
    ELSE IF total_len > MAX_REASSEMBLY
    THEN [asm |-> [a EXCEPT !.expected_len = total_len],
          res |-> "WireFormatError", full |-> <<>>]
    ELSE IngestCopy([buffer |-> Rep(total_len, 0), expected_len |-> total_len],
                    total_len, offset, data)

\* FragmentAssembler::ingest(payload): res is "some" with the message in
\* `full`, "none", or the error.
ingest(a, payload) ==
    IF Len(payload) < 4 THEN [asm |-> a, res |-> "WireFormatError", full |-> <<>>]
    ELSE IngestAt(a, FromU16BE(payload, 0), FromU16BE(payload, 2),
                  SubSeq(payload, 5, Len(payload)))

\* Session::new(now)
SessionNew(now) ==
    [cipher |-> <<>>, ephemeral_key |-> <<>>, tx_sequence |-> 1,
     last_valid_rx_us |-> now, assigned_vip |-> <<>>, assembler |-> AssemblerNew]

(***************************************************************************)
(* m13-ulk: the kernel.  A kernel value is the M13Kernel struct with the   *)
(* pool it was given (`free` frames of it are not leased), the default     *)
(* target of its interface and `panicked`, set when a call unwinds.  The   *)
(* handlers are functions of a context c: the kernel c.k, the datagrams    *)
(* c.out handed to the interface, the encryptions c.seals made so far and  *)
(* c.installs, the reassembled responses a node took a cipher from.        *)
(***************************************************************************)
PEER_NONE == 0                   \* PeerAddr::None
HubAddr == 1                     \* PeerAddr::V4 of the hub
NodeAddr == 2                    \* PeerAddr::V4 of the node
MalloryAddr == 3                 \* PeerAddr::V4 of a third party
V6Addr == 4                      \* PeerAddr::V6 of a third party
V4Addrs == {HubAddr, NodeAddr, MalloryAddr}

BATCH_SIZE == 64
RAPTOR_SYMBOL_SIZE == 20         \* 1024 in the source
CHUNK_SIZE == 2                  \* 1000 in the source
HANDSHAKE_RETRY_US == 2000000
TUN_QUEUE_LIMIT == 256
KERNEL_MIN_CBR == 10000000
GSO_SEGMENT == 1328
SYMBOL_OVERHEAD == 64
HUB_FRAMES == 8192
NODE_FRAMES == 4096
HubIdentity == 7                 \* the hub's signing identity

\* The keystream generate_coefficients draws from in the kernel.
KernelKeystream ==
    [parity |-> << <<200, 5, 129>>, <<3, 250, 77>> >>,
     coded  |-> << <<87, 131, 2>>, <<19, 0, 255>>, <<142, 66, 7>>, <<5, 200, 31>> >>]

\* A filter that turns away PeerAddr::None only.
is_allowedNotNone(addr) == addr # PEER_NONE

\* is_allowed(addr): PeerAddr::V4 only.
is_allowed(addr) == addr \in V4Addrs

\* parse_ipv4_headers(packet): <<>> for None, else <<src, dst>>.
parse_ipv4_headers(packet) ==
    IF Len(packet) < 20 THEN <<>>
    ELSE IF packet[1] \div 16 # 4 THEN <<>>
    ELSE <<FromU32BE(packet, 12), FromU32BE(packet, 16)>>

\* M13Kernel::new, for the pool and interface the binaries build.
KernelNew(is_hub, identity, default_target, frames) ==
    [is_hub |-> is_hub, identity |-> identity, rng |-> 0,
     sessions |-> <<>>, routes |-> <<>>,
     node_target |-> <<>>, pending_kyber |-> <<>>,
     rx_batch_cache |-> 0,
     tun_tx_queue |-> <<>>, tun_rx_queue |-> <<>>,
     last_handshake_tx |-> 0,
     pacer |-> PacerNew(KERNEL_MIN_CBR),
     data_encoder |-> <<>>, data_decoders |-> <<>>, next_data_gen_id |-> 1,
     default_target |-> default_target, free |-> frames, panicked |-> FALSE]

\* M13Kernel::send_payload(data)
send_payload(k, data) ==
    IF Len(k.tun_tx_queue) < TUN_QUEUE_LIMIT
    THEN [k EXCEPT !.tun_tx_queue = Append(@, data)]
    ELSE k

\* The interface's send(frame, target): the target, else the default target,
\* else nothing is sent.
PhySend(c, data, target) ==
    IF target # <<>>
    THEN [c EXCEPT !.out = Append(@, [dst |-> target[1], data |-> data])]
    ELSE IF c.k.default_target # <<>>
    THEN [c EXCEPT !.out = Append(@, [dst |-> c.k.default_target[1], data |-> data])]
    ELSE c

\* The header send_fragmented builds for a fragment payload of frag_len bytes.
FragmentHeader(ptype, frag_len) ==
    [magic |-> M13_MAGIC, version |-> 1, packet_type |-> ptype,
     gen_id |-> 0, symbol_id |-> 0, payload_len |-> frag_len % 65536,
     recoder_rank |-> 0, reserved |-> 0, auth_tag |-> Rep(16, 0)]

\* A fragment that carries the number of its chunk where its offset belongs.
FragmentDatagramNumbered(ptype, payload, offset, end) ==
    HeaderBytes(FragmentHeader(ptype, 4 + end - offset))
        \o U16BE(Len(payload) % 65536) \o U16BE((offset \div CHUNK_SIZE) % 65536)
        \o SubSeq(payload, offset + 1, end)

\* The datagram of the fragment payload[offset..end].
FragmentDatagram(ptype, payload, offset, end) ==
    HeaderBytes(FragmentHeader(ptype, 4 + end - offset))
        \o U16BE(Len(payload) % 65536) \o U16BE(offset % 65536)
        \o SubSeq(payload, offset + 1, end)

\* M13Kernel::send_fragmented(mem, phy, ptype, payload, target), its loop at
\* `offset` (0 at the call): a fragment is skipped when the pool has no frame.
RECURSIVE send_fragmented(_, _, _, _, _)
send_fragmented(c, ptype, payload, target, offset) ==
    IF offset >= Len(payload) THEN c
    ELSE Then(IF c.k.free > 0
              THEN PhySend(c, FragmentDatagram(ptype, payload, offset,
                                               Min(offset + CHUNK_SIZE, Len(payload))),
                           target)
              ELSE c,
              LAMBDA c1 : send_fragmented(c1, ptype, payload, target,
                                          Min(offset + CHUNK_SIZE, Len(payload))))

\* M13Kernel::initiate_handshake(target): the keypair generated is named by
\* the draw of the rng, c.k.rng + 1.
initiate_handshake(c, target) ==
    send_fragmented(IF target # <<>>
                    THEN [c EXCEPT !.k.rng = @ + 1,
                                   !.k.sessions =
                                       (target[1] :> [SessionNew(0) EXCEPT
                                                         !.ephemeral_key = <<c.k.rng + 1>>])
                                           @@ @]
                    ELSE [c EXCEPT !.k.rng = @ + 1, !.k.pending_kyber = <<c.k.rng + 1>>],
                    "ClientHello", KemPublic(c.k.rng + 1), target, 0)

\* M13Kernel::process_client_hello(.., session, payload, peer): e is what
\* kyber_encapsulate returned, the response its ciphertext and the signature
\* of the ciphertext.
process_client_hello(c, peer, payload) ==
    IF Len(payload) < KYBER_PK_LEN_1024 THEN c
    ELSE Then(kyber_encapsulate(SubSeq(payload, 1, KYBER_PK_LEN_1024), c.k.rng),
              LAMBDA e :
                  IF ~e.ok THEN c
                  ELSE send_fragmented([c EXCEPT !.k.rng = @ + 1,
                                                 !.k.sessions[peer].cipher = <<e.ss>>],
                                       "HandshakeInit",
                                       e.ct \o dsa_sign(e.ct, c.k.identity),
                                       <<peer>>, 0))

\* M13Kernel::process_server_hello(session, payload, pending_key): the pending
\* keypair is taken whatever follows.
process_server_hello(c, peer, payload) ==
    IF c.k.pending_kyber = <<>> THEN c
    ELSE IF Len(payload) < KYBER_CT_LEN_1024 THEN [c EXCEPT !.k.pending_kyber = <<>>]
    ELSE Then(kyber_decapsulate(c.k.pending_kyber[1],
                                SubSeq(payload, 1, KYBER_CT_LEN_1024)),
              LAMBDA d : IF ~d.ok THEN [c EXCEPT !.k.pending_kyber = <<>>]
                         ELSE [c EXCEPT !.k.pending_kyber = <<>>,
                                        !.k.sessions[peer].cipher = <<d.ss>>,
                                        !.installs = Append(@, payload)])

\* handle_packet, both handshake arms: the session after ingest returned r.
Ingested(c, peer, now, r) ==
    IF r.res = "some"
    THEN [c EXCEPT !.k.sessions[peer].assembler = r.asm,
                   !.k.sessions[peer].last_valid_rx_us = now]
    ELSE [c EXCEPT !.k.sessions[peer].assembler = r.asm]

\* handle_packet, line 386: the K the receiver builds a decoder with.
DecoderK(header) == IF header.reserved > 0 THEN header.reserved ELSE 1

\* pump_liquid_data, line 301: header.reserved = k as u8.
PumpReserved(k) == k % 256

\* data_decoders.entry(gen_id).or_insert_with(..)
DecoderFor(k, header) ==
    IF header.gen_id \in DOMAIN k.data_decoders THEN k.data_decoders[header.gen_id]
    ELSE FountainDecoderNew(KernelKeystream,
                            DecoderK(header),
                            RAPTOR_SYMBOL_SIZE, header.gen_id)

\* A handler that learns the route on a node as well.
OnSymbolLearnsAnywhere(c, header, peer, r) ==
    IF r.res.kind = "data"
    THEN [c EXCEPT !.k.routes =
                       IF parse_ipv4_headers(r.res.data) # <<>>
                       THEN (parse_ipv4_headers(r.res.data)[1] :> peer) @@ @
                       ELSE @,
                   !.k.tun_rx_queue = Append(@, r.res.data),
                   !.k.data_decoders =
                       [g \in (DOMAIN @) \ {header.gen_id} |-> @[g]]]
    ELSE [c EXCEPT !.k.data_decoders = (header.gen_id :> r.dec) @@ @]

\* handle_packet, Coded | Data arm, after receive_symbol returned r.
OnSymbol(c, header, peer, r) ==
    IF r.res.kind = "data"
    THEN [c EXCEPT !.k.routes =
                       IF c.k.is_hub /\ parse_ipv4_headers(r.res.data) # <<>>
                       THEN (parse_ipv4_headers(r.res.data)[1] :> peer) @@ @
                       ELSE @,
                   !.k.tun_rx_queue = Append(@, r.res.data),
                   !.k.data_decoders =
                       [g \in (DOMAIN @) \ {header.gen_id} |-> @[g]]]
    ELSE [c EXCEPT !.k.data_decoders = (header.gen_id :> r.dec) @@ @]

\* A Coded | Data arm that does not look at what decrypt_detached returned.
OnCodedUnchecked(c, header, peer, now, d) ==
    Then(receive_symbol(KernelKeystream, DecoderFor(c.k, header),
                        header.symbol_id, d.payload),
         LAMBDA r : OnSymbol([c EXCEPT !.k.sessions[peer].last_valid_rx_us = now],
                             header, peer, r))

\* handle_packet, Coded | Data arm, after decrypt_detached returned d.
OnCoded(c, header, peer, now, d) ==
    IF ~d.ok THEN c
    ELSE Then(receive_symbol(KernelKeystream, DecoderFor(c.k, header),
                             header.symbol_id, d.payload),
              LAMBDA r : OnSymbol([c EXCEPT !.k.sessions[peer].last_valid_rx_us = now],
                                  header, peer, r))

\* handle_packet from line 354 on, the session of `peer` present.
Dispatch(c, header, payload, peer, now) ==
    CASE header.packet_type = "ClientHello" ->
            IF c.k.is_hub
            THEN Then(ingest(c.k.sessions[peer].assembler, payload),
                      LAMBDA r : IF r.res = "some"
                                 THEN process_client_hello(Ingested(c, peer, now, r),
                                                           peer, r.full)
                                 ELSE Ingested(c, peer, now, r))
            ELSE c
      [] header.packet_type = "HandshakeInit" ->
            IF ~c.k.is_hub
            THEN Then(ingest(c.k.sessions[peer].assembler, payload),
                      LAMBDA r : IF r.res = "some"
                                 THEN process_server_hello(Ingested(c, peer, now, r),
                                                           peer, r.full)
                                 ELSE Ingested(c, peer, now, r))
            ELSE c
      [] header.packet_type \in {"Coded", "Data"} ->
            IF c.k.sessions[peer].cipher # <<>>
            THEN Then(decrypt_detached(c.seals, c.k.sessions[peer].cipher[1],
                                       header, payload),
                      LAMBDA d : OnCoded(c, header, peer, now, d))
            ELSE c
      [] OTHER -> c

\* An admission that opens a session for an unknown peer whatever it sent.
AdmitAnyType(c, header, payload, peer, now) ==
    IF peer \in DOMAIN c.k.sessions THEN Dispatch(c, header, payload, peer, now)
    ELSE IF c.k.is_hub
    THEN Dispatch([c EXCEPT !.k.sessions = (peer :> SessionNew(now)) @@ @],
                  header, payload, peer, now)
    ELSE IF DOMAIN c.k.sessions = {}
    THEN Dispatch([c EXCEPT !.k.sessions = (peer :> SessionNew(now)) @@ @,
                            !.k.node_target = <<peer>>],
                  header, payload, peer, now)
    ELSE [c EXCEPT !.k.panicked = TRUE]

\* An admission that binds a node to whoever it hears from.
AdmitRebinds(c, header, payload, peer, now) ==
    IF peer \in DOMAIN c.k.sessions THEN Dispatch(c, header, payload, peer, now)
    ELSE IF c.k.is_hub /\ header.packet_type = "ClientHello"
    THEN Dispatch([c EXCEPT !.k.sessions = (peer :> SessionNew(now)) @@ @],
                  header, payload, peer, now)
    ELSE IF ~c.k.is_hub
    THEN Dispatch([c EXCEPT !.k.sessions = (peer :> SessionNew(now)) @@ @,
                            !.k.node_target = <<peer>>],
                  header, payload, peer, now)
    ELSE c

\* handle_packet from line 342 on.  A node that holds a session and hears
\* from another address inserts nothing, and `get_mut(&peer).unwrap()` of
\* line 354 panics.
Admit(c, header, payload, peer, now) ==
    IF peer \in DOMAIN c.k.sessions THEN Dispatch(c, header, payload, peer, now)
    ELSE IF c.k.is_hub /\ header.packet_type = "ClientHello"
    THEN Dispatch([c EXCEPT !.k.sessions = (peer :> SessionNew(now)) @@ @],
                  header, payload, peer, now)
    ELSE IF ~c.k.is_hub
    THEN IF DOMAIN c.k.sessions = {}
         THEN Dispatch([c EXCEPT !.k.sessions = (peer :> SessionNew(now)) @@ @,
                                 !.k.node_target = <<peer>>],
                       header, payload, peer, now)
         ELSE [c EXCEPT !.k.panicked = TRUE]
    ELSE c

\* frame.data[0..32] of a frame that holds the datagram `data`, zeros after it.
FrameHead(data) ==
    Eval([i \in 1..HEADER_SIZE |-> IF i <= Len(data) THEN data[i] ELSE 0])

\* M13Kernel::handle_packet(frame, peer, now), frame.len the datagram's
\* length and p what from_bytes returned.
handle_packet(c, data, peer, now) ==
    Then(from_bytes(FrameHead(data)),
         LAMBDA p :
             IF ~p.ok THEN c
             ELSE IF Len(data) < HEADER_SIZE + p.h.payload_len THEN c
             ELSE Then(SubSeq(data, HEADER_SIZE + 1, HEADER_SIZE + p.h.payload_len),
                       LAMBDA payload : Admit(c, p.h, payload, peer, now)))

\* The leases of a poll's batch: those cached and as many more as the pool has.
BatchLen(k) == k.rx_batch_cache + Min(BATCH_SIZE - k.rx_batch_cache, k.free)

\* The datagrams recv_batch hands to a poll.
BatchCount(k, inbox) == Min(BatchLen(k), Len(inbox))

\* The loop of line 177 from datagram i on: each lease is dropped after its
\* datagram is handled.
RECURSIVE HandleBatch(_, _, _, _, _)
HandleBatch(c, inbox, i, n, now) ==
    IF i > n \/ c.k.panicked THEN c
    ELSE Then(IF c.k.is_hub /\ ~is_allowed(inbox[i].src)
              THEN [c EXCEPT !.k.free = @ + 1]
              ELSE [handle_packet(c, inbox[i].data, inbox[i].src, now)
                        EXCEPT !.k.free = @ + 1],
              LAMBDA c1 : HandleBatch(c1, inbox, i + 1, n, now))

\* poll, lines 160-190.
PollReceive(c, inbox, now) ==
    HandleBatch([c EXCEPT !.k.free = @ - (BatchLen(c.k) - c.k.rx_batch_cache),
                          !.k.rx_batch_cache = BatchLen(c.k) - BatchCount(c.k, inbox),
                          !.work_done = @ \/ BatchCount(c.k, inbox) > 0],
                inbox, 1, BatchCount(c.k, inbox), now)

\* A liveness check that retries as soon as the retry interval is reached.
PollLivenessAtLeast(c, now) ==
    IF /\ ~c.k.is_hub
       /\ \A p \in DOMAIN c.k.sessions : c.k.sessions[p].cipher = <<>>
       /\ SatSub(now, c.k.last_handshake_tx) >= HANDSHAKE_RETRY_US
    THEN [initiate_handshake(c, <<>>) EXCEPT !.k.last_handshake_tx = now,
                                             !.work_done = TRUE]
    ELSE c

\* poll, lines 141-157: the node's session liveness check.
PollLiveness(c, now) ==
    IF /\ ~c.k.is_hub
       /\ \A p \in DOMAIN c.k.sessions : c.k.sessions[p].cipher = <<>>
       /\ SatSub(now, c.k.last_handshake_tx) > HANDSHAKE_RETRY_US
    THEN [initiate_handshake(c, <<>>) EXCEPT !.k.last_handshake_tx = now,
                                             !.work_done = TRUE]
    ELSE c

\* PhysicalInterface::send_gso(super_packet, target, segment_size), its loop
\* at byte `off` (0 at the call): the buffer goes out in segments.
RECURSIVE send_gso(_, _, _, _)
send_gso(c, buf, target, off) ==
    IF off >= Len(buf) THEN c
    ELSE send_gso(PhySend(c, SubSeq(buf, off + 1, Min(off + GSO_SEGMENT, Len(buf))),
                          target),
                  buf, target, off + GSO_SEGMENT)

\* The symbols pump_liquid_data sends of a block: k + max(1, k * 10 / 100).
PumpTarget(enc) == enc.block_size_k + Max(1, (enc.block_size_k * 10) \div 100)

\* cipher_ref of pump_liquid_data; sessions.values().next() is the session of
\* the least key of the BTreeMap.
PumpCipher(k, target_peer) ==
    IF target_peer # <<>>
    THEN IF target_peer[1] \in DOMAIN k.sessions
         THEN k.sessions[target_peer[1]].cipher ELSE <<>>
    ELSE IF ~k.is_hub /\ DOMAIN k.sessions # {}
    THEN k.sessions[CHOOSE a \in DOMAIN k.sessions :
                        \A b \in DOMAIN k.sessions : a <= b].cipher
    ELSE <<>>

\* Lines 312-321: the symbol is encrypted when the target has a cipher and is
\* sent as it is when not.
PumpSend(c, header, payload, cipher) ==
    IF cipher # <<>>
    THEN Then(encrypt_detached(c.seals, cipher[1], header, payload),
              LAMBDA e : PhySend([c EXCEPT !.seals = e.seals],
                                 HeaderBytes([header EXCEPT !.auth_tag = e.tag])
                                     \o e.payload,
                                 c.k.data_encoder[1].target_peer))
    ELSE PhySend(c, HeaderBytes(header) \o payload, c.k.data_encoder[1].target_peer)

\* One turn of pump_liquid_data's loop after next_packet returned p: the
\* header's type is Coded and its reserved byte k.
PumpPacket(c, p) ==
    IF c.k.free > 0
    THEN [PumpSend([c EXCEPT !.k.data_encoder[1].enc = p.enc],
                   [p.header EXCEPT
                       !.packet_type = "Coded",
                       !.reserved = PumpReserved(c.k.data_encoder[1].enc.block_size_k)],
                   p.payload,
                   PumpCipher(c.k, c.k.data_encoder[1].target_peer))
              EXCEPT !.k.pacer = PacerConsume(@, RAPTOR_SYMBOL_SIZE + SYMBOL_OVERHEAD),
                     !.k.data_encoder[1].sent_count = @ + 1]
    ELSE [c EXCEPT !.k.data_encoder[1].enc = p.enc]

RECURSIVE PumpLoop(_, _)
PumpLoop(c, burst) ==
    IF c.k.data_encoder[1].sent_count >= PumpTarget(c.k.data_encoder[1].enc) THEN c
    ELSE IF burst >= BATCH_SIZE THEN c
    ELSE IF ~PacerChaffNeeded(c.k.pacer, RAPTOR_SYMBOL_SIZE + SYMBOL_OVERHEAD) THEN c
    ELSE Then(Then(next_packet(KernelKeystream, c.k.data_encoder[1].enc),
                   LAMBDA p : PumpPacket(c, p)),
              LAMBDA c1 : IF c.k.free > 0 THEN PumpLoop(c1, burst + 1) ELSE c1)

\* M13Kernel::pump_liquid_data(): the encoder is dropped once its symbols are
\* sent (line 331).
pump_liquid_data(c) ==
    IF c.k.data_encoder = <<>> THEN c
    ELSE Then(PumpLoop(c, 0),
              LAMBDA c1 : IF c1.k.data_encoder[1].sent_count
                                 >= PumpTarget(c1.k.data_encoder[1].enc)
                          THEN [c1 EXCEPT !.k.data_encoder = <<>>]
                          ELSE c1)

\* An egress that sends what has no route to the peer of the least address.
GsoTargetAnyPeer(k, parsed) ==
    IF k.is_hub
    THEN IF parsed # <<>> /\ parsed[2] \in DOMAIN k.routes
         THEN <<k.routes[parsed[2]]>>
         ELSE IF DOMAIN k.sessions # {}
         THEN <<CHOOSE a \in DOMAIN k.sessions : \A b \in DOMAIN k.sessions : a <= b>>
         ELSE <<>>
    ELSE k.node_target

\* target_peer of the egress loop: the route of the destination on a hub,
\* node_target on a node.
GsoTarget(k, parsed) ==
    IF k.is_hub
    THEN IF parsed # <<>> /\ parsed[2] \in DOMAIN k.routes
         THEN <<k.routes[parsed[2]]>> ELSE <<>>
    ELSE k.node_target

\* The final flush of the egress loop; s is the loop's state.
GsoFinal(s) ==
    IF s.gso_buffer # <<>> /\ s.current_target # <<>>
    THEN [send_gso(s.c, s.gso_buffer, s.current_target, 0) EXCEPT !.work_done = TRUE]
    ELSE s.c

\* Lines 239-248: the buffer is flushed when the target changes.
GsoRetarget(s, target) ==
    IF s.current_target = <<>> THEN [s EXCEPT !.current_target = <<target>>]
    ELSE IF s.current_target[1] # target
    THEN [s EXCEPT !.c = send_gso(s.c, s.gso_buffer, s.current_target, 0),
                   !.gso_buffer = <<>>, !.current_target = <<target>>]
    ELSE s

\* Lines 253-262: the encoder is installed, the buffer flushed, symbols pumped
\* and work_done set.
GsoEncoderSet(s, target, enc) ==
    [s EXCEPT !.c = [pump_liquid_data(
                        IF s.gso_buffer # <<>>
                        THEN send_gso([s.c EXCEPT
                                          !.k.data_encoder =
                                              <<[enc |-> enc, sent_count |-> 0,
                                                 target_peer |-> <<target>>]>>,
                                          !.k.next_data_gen_id = (@ + 1) % 65536],
                                      s.gso_buffer, s.current_target, 0)
                        ELSE [s.c EXCEPT
                                 !.k.data_encoder =
                                     <<[enc |-> enc, sent_count |-> 0,
                                        target_peer |-> <<target>>]>>,
                                 !.k.next_data_gen_id = (@ + 1) % 65536])
                        EXCEPT !.work_done = TRUE]]

RECURSIVE GsoLoop(_)

\* Lines 228-272, the payload popped and its tokens consumed; e is what
\* FountainEncoder::new returned.
GsoPopped(s, payload, target_peer) ==
    IF target_peer = <<>> THEN GsoLoop([s EXCEPT !.count = @ + 1])
    ELSE Then(FountainEncoderNew(KernelKeystream, payload, RAPTOR_SYMBOL_SIZE,
                                 s.c.k.next_data_gen_id),
              LAMBDA e :
                  IF e.ok
                  THEN GsoFinal(GsoEncoderSet(GsoRetarget(s, target_peer[1]),
                                              target_peer[1], e.enc))
                  ELSE GsoLoop([GsoRetarget(s, target_peer[1]) EXCEPT
                                   !.gso_buffer = @ \o payload, !.count = @ + 1]))

\* The egress loop of poll, lines 209-273, and the final flush.
GsoLoop(s) ==
    IF s.count >= 64 THEN GsoFinal(s)
    ELSE IF s.c.k.tun_tx_queue = <<>> THEN GsoFinal(s)
    ELSE IF ~PacerChaffNeeded(s.c.k.pacer, Len(Head(s.c.k.tun_tx_queue)) + 64)
    THEN GsoFinal(s)
    ELSE GsoPopped([s EXCEPT !.c.k.tun_tx_queue = Tail(@),
                             !.c.k.pacer = PacerConsume(@, Len(Head(s.c.k.tun_tx_queue)) + 64)],
                   Head(s.c.k.tun_tx_queue),
                   GsoTarget(s.c.k, parse_ipv4_headers(Head(s.c.k.tun_tx_queue))))

\* An egress that drains the queue whether or not an encoder is at work.
PollEgressDrains(c) ==
    IF ~(c.k.is_hub \/ DOMAIN c.k.sessions # {}) THEN c
    ELSE GsoLoop([c |-> c, count |-> 0, gso_buffer |-> <<>>, current_target |-> <<>>])

\* poll, lines 196-283.
PollEgress(c) ==
    IF ~(c.k.is_hub \/ DOMAIN c.k.sessions # {}) THEN c
    ELSE IF c.k.data_encoder # <<>>
    THEN [pump_liquid_data(c) EXCEPT !.work_done = TRUE]
    ELSE GsoLoop([c |-> c, count |-> 0, gso_buffer |-> <<>>, current_target |-> <<>>])

\* poll from line 193 on; a poll that panicked has unwound.
PollSend(c, now) ==
    IF c.k.panicked THEN c
    ELSE PollEgress([c EXCEPT !.k.pacer = PacerTick(@, now)])

\* M13Kernel::poll() at clock reading `now`, `inbox` the datagrams waiting;
\* the result's work_done is what poll returns.
poll(c, inbox, now) ==
    Then(Then(PollLiveness(c, now), LAMBDA c1 : PollReceive(c1, inbox, now)),
         LAMBDA c2 : PollSend(c2, now))

(***************************************************************************)
(* The kernel run: a hub and a node, each polled by its main loop, joined  *)
(* by a link that delivers every datagram, in order.  net.inbox[a] holds   *)
(* the datagrams waiting at the socket of the kernel at address a, each    *)
(* with its source address.  Both kernels read the clock net.now.  The     *)
(* applications queue payloads with send_payload; a third party may put    *)
(* datagrams of its own on the link (Inject).                              *)
(***************************************************************************)
MaxNow == 5000000                \* the clock stops here
MaxPayloads == 1                 \* send_payload calls per kernel
MaxInject == 1                   \* datagrams the third party sends

ClockSteps == {1000000, 2500000}

NodeIdentity == 8
MalloryKeypair == 9
HubVip == 168627457              \* 10.13.13.1
NodeVip == 168627458             \* 10.13.13.2

\* A 20-byte IPv4 header from src to dst.
Ipv4Packet(src, dst) ==
    <<69, 0, 0, 20, 0, 0, 0, 0, 64, 17, 0, 0>> \o U32BE(src) \o U32BE(dst)

\* Twenty bytes with version nibble 6: parse_ipv4_headers returns None.
NotIpv4 == <<96, 0, 0, 0, 0, 20, 0, 0, 0, 0, 0, 0, 0, 0, 0, 0, 0, 0, 0, 0>>

\* What the application at address a sends: the node an IPv4 packet or one
\* that is none.
SamplePayloads(a) ==
    IF a = NodeAddr THEN {Ipv4Packet(NodeVip, HubVip), NotIpv4}
    ELSE {Ipv4Packet(HubVip, NodeVip)}

\* The third party's datagrams: a HandshakeInit of one fragment that carries
\* ciphertext-length bytes and no signature, a keep-alive header, a
\* ClientHello with a key of its own, bytes that are no header, and a symbol
\* with a made-up tag under the node's address.
InjectSamples ==
    << [src |-> MalloryAddr, dst |-> NodeAddr,
        data |-> FragmentDatagram("HandshakeInit", Rep(KYBER_CT_LEN_1024, 9),
                                  0, KYBER_CT_LEN_1024)],
       [src |-> MalloryAddr, dst |-> NodeAddr,
        data |-> HeaderBytes(FragmentHeader("KeepAlive", 0))],
       [src |-> MalloryAddr, dst |-> HubAddr,
        data |-> FragmentDatagram("ClientHello", KemPublic(MalloryKeypair),
                                  0, KYBER_PK_LEN_1024)],
       [src |-> MalloryAddr, dst |-> HubAddr, data |-> <<1, 2, 3>>],
       [src |-> NodeAddr, dst |-> HubAddr,
        data |-> HeaderBytes([FragmentHeader("Coded", 2) EXCEPT
                                 !.gen_id = 1, !.auth_tag = Rep(16, 1)]) \o <<1, 1>>] >>

NetIdle == [now |-> 0]

NetStart ==
    [now |-> 0,
     kern |-> (HubAddr :> KernelNew(TRUE, HubIdentity, <<>>, HUB_FRAMES))
                  @@ (NodeAddr :> KernelNew(FALSE, NodeIdentity, <<HubAddr>>, NODE_FRAMES)),
     inbox |-> (HubAddr :> <<>>) @@ (NodeAddr :> <<>>),
     seals |-> <<>>, installs |-> <<>>,
     queued |-> (HubAddr :> 0) @@ (NodeAddr :> 0),
     injected |-> 0]

\* The context of a call into the kernel at address a.
Ctx(n, a) ==
    [k |-> n.kern[a], out |-> <<>>, seals |-> n.seals, installs |-> n.installs,
     work_done |-> FALSE]

\* The link takes the datagrams `out` of the kernel at src, from the i-th on.
RECURSIVE Transmit(_, _, _, _)
Transmit(inbox, src, out, i) ==
    IF i > Len(out) THEN inbox
    ELSE Transmit(IF out[i].dst \in DOMAIN inbox
                  THEN [inbox EXCEPT ![out[i].dst] =
                           Append(@, [src |-> src, data |-> out[i].data])]
                  ELSE inbox,
                  src, out, i + 1)

\* The run after the kernel at a polled, took `taken` datagrams and ended as c.
Polled(n, a, c, taken) ==
    [n EXCEPT !.kern[a] = c.k, !.seals = c.seals, !.installs = c.installs,
              !.inbox = Transmit([@ EXCEPT ![a] = SubSeq(@, taken + 1, Len(@))],
                                 a, c.out, 1)]

\* The clock moves on by d microseconds.
AdvanceClock(d) ==
    /\ net.now + d <= MaxNow
    /\ net' = [net EXCEPT !.now = @ + d]
    /\ UNCHANGED notNet

\* The main loop of the kernel at address a calls poll().
Poll(a) ==
    /\ ~net.kern[a].panicked
    /\ net' = Then(poll(Ctx(net, a), net.inbox[a], net.now),
                   LAMBDA c : Polled(net, a, c, BatchCount(net.kern[a], net.inbox[a])))
    /\ UNCHANGED notNet

\* The application at address a calls send_payload(p).
SendPayload(a, p) ==
    /\ ~net.kern[a].panicked
    /\ net.queued[a] < MaxPayloads
    /\ net' = [net EXCEPT !.kern[a] = send_payload(@, p), !.queued[a] = @ + 1]
    /\ UNCHANGED notNet

\* The third party sends its i-th datagram.
Inject(i) ==
    /\ net.injected < MaxInject
    /\ net' = [net EXCEPT !.inbox[InjectSamples[i].dst] =
                              Append(@, [src |-> InjectSamples[i].src,
                                         data |-> InjectSamples[i].data]),
                          !.injected = @ + 1]
    /\ UNCHANGED notNet

NextLink ==
    \/ \E d \in ClockSteps : AdvanceClock(d)
    \/ Poll(HubAddr)
    \/ Poll(NodeAddr)

NextTraffic ==
    \/ \E d \in ClockSteps : AdvanceClock(d)
    \/ Poll(HubAddr)
    \/ Poll(NodeAddr)
    \/ \E a \in {HubAddr, NodeAddr} : \E p \in SamplePayloads(a) : SendPayload(a, p)

NextKernel ==
    \/ \E d \in ClockSteps : AdvanceClock(d)
    \/ Poll(HubAddr)
    \/ Poll(NodeAddr)
    \/ \E i \in 1..Len(InjectSamples) : Inject(i)

(***************************************************************************)
(* Payloads of two symbols.  The applications of the node and of the hub   *)
(* send an IPv4 packet of twice the symbol size, which leaves as K = 2     *)
(* source symbols and one repair symbol.                                   *)
(***************************************************************************)
\* An IPv4 packet from src to dst with a body of one symbol size.
LongPacket(src, dst) ==
    [Ipv4Packet(src, dst) EXCEPT ![4] = 20 + RAPTOR_SYMBOL_SIZE]
        \o Rep(RAPTOR_SYMBOL_SIZE, 7)

NextLong ==
    \/ \E d \in ClockSteps : AdvanceClock(d)
    \/ Poll(HubAddr)
    \/ Poll(NodeAddr)
    \/ SendPayload(NodeAddr, LongPacket(NodeVip, HubVip))
    \/ SendPayload(HubAddr, LongPacket(HubVip, NodeVip))

(***************************************************************************)
(* A run of the hub on its own.  Its peers are the node and the third      *)
(* party, each at a V4 address: a peer sends the ClientHello of its key,   *)
(* and once the hub holds a cipher for it (the peer has the same secret    *)
(* from the hub's reply) it sends symbols of its payload's generation 1,   *)
(* any of them, in any order.  Strays are datagrams from addresses that    *)
(* are not V4 and datagrams that belong to no handshake.  What the hub     *)
(* sends is dropped by the link: no peer's socket is modelled.             *)
(***************************************************************************)
MaxInbox == 2
MaxPeerSymbols == 2

\* The hub's clock is read at these intervals.
HubClockStep == 2500000
MalloryVip == 168627459          \* 10.13.13.3

Peers == {NodeAddr, MalloryAddr}

\* The keypair of peer p: 8 for the node, MalloryKeypair for the third party.
PeerKeypair(p) == MalloryKeypair - MalloryAddr + p

\* The payload peer p's application sends: an IPv4 packet from its address
\* and one byte more, two symbols.
PeerPayload(p) ==
    Ipv4Packet(IF p = NodeAddr THEN NodeVip ELSE MalloryVip, HubVip) \o <<p>>

\* The encoder of peer p's first generation.
PeerEncoder(p) ==
    FountainEncoderNew(KernelKeystream, PeerPayload(p), RAPTOR_SYMBOL_SIZE, 1).enc

\* Symbol id of that generation as pump_liquid_data sends it: what
\* next_packet returned as pk, e what encrypt_detached returned.
PeerSymbolSealed(pk, e) ==
    [seals |-> e.seals,
     data |-> HeaderBytes([pk.header EXCEPT !.packet_type = "Coded",
                                           !.reserved = PumpReserved(pk.enc.block_size_k),
                                           !.auth_tag = e.tag]) \o e.payload]

PeerSymbolData(seals, key, pk) ==
    PeerSymbolSealed(pk, encrypt_detached(seals, key,
                                          [pk.header EXCEPT
                                              !.packet_type = "Coded",
                                              !.reserved = PumpReserved(pk.enc.block_size_k)],
                                          pk.payload))

\* What the hub's application sends: a packet for the node, a packet for an
\* address no peer has, and bytes that are no IPv4 packet.
HubPayloads ==
    {Ipv4Packet(HubVip, NodeVip), Ipv4Packet(HubVip, MalloryVip + 1), NotIpv4}

\* Datagrams for the hub: a ClientHello from a V6 address and one from no
\* address, and from the third party's V4 address a HandshakeInit fragment,
\* a symbol and a keep-alive.
StraySamples ==
    << [src |-> V6Addr,
        data |-> FragmentDatagram("ClientHello", KemPublic(MalloryKeypair),
                                  0, KYBER_PK_LEN_1024)],
       [src |-> PEER_NONE,
        data |-> FragmentDatagram("ClientHello", KemPublic(MalloryKeypair),
                                  0, KYBER_PK_LEN_1024)],
       [src |-> MalloryAddr,
        data |-> FragmentDatagram("HandshakeInit", Rep(KYBER_CT_LEN_1024, 9),
                                  0, KYBER_CT_LEN_1024)],
       [src |-> MalloryAddr,
        data |-> HeaderBytes([FragmentHeader("Coded", 2) EXCEPT
                                 !.gen_id = 1, !.reserved = 1]) \o <<1, 1>>],
       [src |-> MalloryAddr,
        data |-> HeaderBytes(FragmentHeader("KeepAlive", 0))] >>

\* `hello` holds the peers that sent their ClientHello, `sent` the symbols
\* <<peer, id>> sent, `strays` the strays that arrived, in order.
HubStart ==
    [now |-> 0,
     kern |-> (HubAddr :> KernelNew(TRUE, HubIdentity, <<>>, HUB_FRAMES)),
     inbox |-> (HubAddr :> <<>>),
     seals |-> <<>>, installs |-> <<>>,
     queued |-> (HubAddr :> 0),
     hello |-> {}, sent |-> {}, strays |-> <<>>]

\* Peer p sends the ClientHello of its key, in one fragment.
PeerHello(p) ==
    /\ p \notin net.hello
    /\ Len(net.inbox[HubAddr]) < MaxInbox
    /\ net' = [net EXCEPT
                  !.inbox[HubAddr] =
                      Append(@, [src |-> p,
                                 data |-> FragmentDatagram("ClientHello",
                                                           KemPublic(PeerKeypair(p)),
                                                           0, KYBER_PK_LEN_1024)]),
                  !.hello = @ \cup {p}]
    /\ UNCHANGED notNet

\* The run after peer p sent symbol id as s.
PeerSent(n, p, id, s) ==
    [n EXCEPT !.inbox[HubAddr] = Append(@, [src |-> p, data |-> s.data]),
              !.seals = s.seals,
              !.sent = @ \cup {<<p, id>>}]

\* Peer p, its handshake done, sends symbol id of its payload.
PeerSymbol(p, id) ==
    /\ p \in DOMAIN net.kern[HubAddr].sessions
    /\ net.kern[HubAddr].sessions[p].cipher # <<>>
    /\ <<p, id>> \notin net.sent
    /\ Cardinality(net.sent) < MaxPeerSymbols
    /\ Len(net.inbox[HubAddr]) < MaxInbox
    /\ net' = Then(PeerSymbolData(net.seals, net.kern[HubAddr].sessions[p].cipher[1],
                                  next_packet(KernelKeystream,
                                              [PeerEncoder(p) EXCEPT !.cursor = id])),
                   LAMBDA s : PeerSent(net, p, id, s))
    /\ UNCHANGED notNet

\* The i-th stray arrives.
Stray(i) ==
    /\ Len(net.strays) < MaxInject
    /\ Len(net.inbox[HubAddr]) < MaxInbox
    /\ net' = [net EXCEPT !.inbox[HubAddr] = Append(@, StraySamples[i]),
                          !.strays = Append(@, i)]
    /\ UNCHANGED notNet

\* The hub's ingress: peers and strangers send, the hub polls.
NextHub ==
    \/ AdvanceClock(HubClockStep)
    \/ Poll(HubAddr)
    \/ \E p \in Peers : PeerHello(p)
    \/ \E p \in Peers : \E id \in 0..1 : PeerSymbol(p, id)
    \/ \E i \in 1..Len(StraySamples) : Stray(i)

\* The hub's egress: peers send, the hub's application sends, the hub polls.
NextEgress ==
    \/ AdvanceClock(HubClockStep)
    \/ Poll(HubAddr)
    \/ \E p \in Peers : PeerHello(p)
    \/ \E p \in Peers : \E id \in 0..1 : PeerSymbol(p, id)
    \/ \E p \in HubPayloads : SendPayload(HubAddr, p)

(***************************************************************************)
(* A hub and a node whose clock is read at a fine grain: between two       *)
(* coarse readings the main loops may see the clock a fraction of a        *)
(* millisecond later, so the pacer refills by less than one symbol's cost. *)
(* The node's application sends.                                           *)
(***************************************************************************)
FineSteps == {100}               \* microseconds

\* The clock moves on by a fine step, once after a coarse reading.
FineAdvance(d) ==
    /\ net.now > 0
    /\ net.now % HubClockStep = 0
    /\ net.now + d <= MaxNow
    /\ net' = [net EXCEPT !.now = @ + d]
    /\ UNCHANGED notNet

NextPaced ==
    \/ AdvanceClock(HubClockStep)
    \/ \E d \in FineSteps : FineAdvance(d)
    \/ Poll(HubAddr)
    \/ Poll(NodeAddr)
    \/ \E p \in SamplePayloads(NodeAddr) : SendPayload(NodeAddr, p)

(***************************************************************************)
(* A hub and a node on a link that delays: of the datagrams on their way   *)
(* to a socket, in order, a poll's recv_batch may find only the first few  *)
(* arrived, the rest being still in flight.  The node's application sends. *)
(***************************************************************************)
\* The main loop of the kernel at a polls when n of the datagrams sent to it
\* have arrived.
PollSome(a, n) ==
    /\ ~net.kern[a].panicked
    /\ n < BatchCount(net.kern[a], net.inbox[a])
    /\ net' = Then(poll(Ctx(net, a), SubSeq(net.inbox[a], 1, n), net.now),
                   LAMBDA c : Polled(net, a, c, n))
    /\ UNCHANGED notNet

NextDelay ==
    \/ AdvanceClock(HubClockStep)
    \/ Poll(HubAddr)
    \/ Poll(NodeAddr)
    \/ \E a \in {HubAddr, NodeAddr} : \E n \in 1..(BATCH_SIZE - 1) : PollSome(a, n)
    \/ \E p \in SamplePayloads(NodeAddr) : SendPayload(NodeAddr, p)

(***************************************************************************)
(* Forged symbols.  The link carries the node's traffic and, besides, one  *)
(* datagram of a party that holds no key: a Coded or Data datagram with a  *)
(* made-up tag, under its own address or under the address of a kernel.    *)
(* `forged` holds the forgeries sent, in order.                            *)
(***************************************************************************)
\* A symbol of generation 1 with tag `tag` and two payload bytes.
ForgedSymbol(packet_type, tag) ==
    HeaderBytes([FragmentHeader(packet_type, 2) EXCEPT
                    !.gen_id = 1, !.reserved = 1, !.auth_tag = Rep(16, tag)]) \o <<1, 1>>

ForgedSamples ==
    << [src |-> MalloryAddr, dst |-> NodeAddr, data |-> ForgedSymbol("Coded", 1)],
       [src |-> NodeAddr, dst |-> HubAddr, data |-> ForgedSymbol("Coded", 1)],
       [src |-> HubAddr, dst |-> NodeAddr, data |-> ForgedSymbol("Data", 1)] >>

ForgedStart == [forged |-> <<>>] @@ NetStart

\* The i-th forgery is put on the link.
Forge(i) ==
    /\ Len(net.forged) < MaxInject
    /\ net' = [net EXCEPT !.inbox[ForgedSamples[i].dst] =
                              Append(@, [src |-> ForgedSamples[i].src,
                                         data |-> ForgedSamples[i].data]),
                          !.forged = Append(@, i)]
    /\ UNCHANGED notNet

NextForged ==
    \/ AdvanceClock(HubClockStep)
    \/ Poll(HubAddr)
    \/ Poll(NodeAddr)
    \/ SendPayload(NodeAddr, Ipv4Packet(NodeVip, HubVip))
    \/ \E i \in 1..Len(ForgedSamples) : Forge(i)

(***************************************************************************)
(* Small pools.  The node's kernel is built over a slab of one frame, of   *)
(* the ten frames of the kernel's own test, or of the node binary's 4096;  *)
(* the hub is as its binary builds it.  next_packet is called before a     *)
(* frame is asked for, so a poll that finds no frame still moves the       *)
(* encoder's cursor: the run stops polling a kernel whose encoder has      *)
(* reached symbol MaxCursor.                                               *)
(***************************************************************************)
TEST_FRAMES == 10
MaxCursor == 6

SamplePools == {1, TEST_FRAMES, NODE_FRAMES}

PoolStart(frames) ==
    [NetStart EXCEPT !.kern[NodeAddr] =
                         KernelNew(FALSE, NodeIdentity, <<HubAddr>>, frames)]

\* The main loop of the kernel at a polls, its encoder short of MaxCursor.
PollWithin(a) ==
    /\ IF net.kern[a].data_encoder = <<>> THEN TRUE
       ELSE net.kern[a].data_encoder[1].enc.cursor < MaxCursor
    /\ Poll(a)

NextPool ==
    \/ AdvanceClock(HubClockStep)
    \/ PollWithin(HubAddr)
    \/ PollWithin(NodeAddr)
    \/ \E p \in SamplePayloads(NodeAddr) : SendPayload(NodeAddr, p)

(***************************************************************************)
(* The reserved byte on its own: for each K the encoder accepts, the       *)
(* sender stamps a symbol's header (next_packet, then pump_liquid_data     *)
(* over it) and the receiver picks the K of the decoder from the header.   *)
(***************************************************************************)
ReservedStart(k) == [step |-> "encoder", k |-> k]

\* pump_liquid_data, lines 299-301: the header of next_packet, restamped.
StampSymbol ==
    /\ fountain.step = "encoder"
    /\ fountain' = [step |-> "sent", k |-> fountain.k,
                    encoded |-> k_to_reserved(fountain.k),
                    reserved |-> PumpReserved(fountain.k)]
    /\ UNCHANGED notFountain

\* handle_packet, lines 385-390: the decoder of the generation is built.
BuildDecoder ==
    /\ fountain.step = "sent"
    /\ fountain' = [step |-> "built", k |-> fountain.k,
                    encoded |-> fountain.encoded, reserved |-> fountain.reserved,
                    decoder_k |-> DecoderK([reserved |-> fountain.reserved])]
    /\ UNCHANGED notFountain

NextReserved == StampSymbol \/ BuildDecoder

(***************************************************************************)
(* Short replies.  Besides the hub's HandshakeInit the node hears, under   *)
(* the hub's address, a HandshakeInit of one fragment whose payload is     *)
(* shorter than a KEM ciphertext.  `shorts` counts those sent.             *)
(***************************************************************************)
\* The payloads of the short replies: one byte short of a ciphertext, and none.
ShortPayloads == <<Rep(KYBER_CT_LEN_1024 - 1, 9), <<>>>>

ShortStart == [shorts |-> 0] @@ NetStart

\* The i-th short reply is put on the link.
ShortReply(i) ==
    /\ net.shorts < MaxInject
    /\ net' = [net EXCEPT !.inbox[NodeAddr] =
                              Append(@, [src |-> HubAddr,
                                         data |-> FragmentDatagram("HandshakeInit",
                                                                   ShortPayloads[i], 0,
                                                                   Len(ShortPayloads[i]))]),
                          !.shorts = @ + 1]
    /\ UNCHANGED notNet

NextShort ==
    \/ \E d \in ClockSteps : AdvanceClock(d)
    \/ Poll(HubAddr)
    \/ Poll(NodeAddr)
    \/ \E i \in 1..Len(ShortPayloads) : ShortReply(i)

(***************************************************************************)
(* Queues.  The application of the node queues up to MaxQueued payloads    *)
(* of two kinds; the clock is read every 2.5 s and shortly after such a    *)
(* reading, so that a poll finds a full bucket or a nearly empty one.      *)
(***************************************************************************)
MaxQueued == 2

\* The application at address a calls send_payload(p), up to MaxQueued times.
Queue(a, p) ==
    /\ ~net.kern[a].panicked
    /\ net.queued[a] < MaxQueued
    /\ net' = [net EXCEPT !.kern[a] = send_payload(@, p), !.queued[a] = @ + 1]
    /\ UNCHANGED notNet

\* The clock is read at the next coarse step after a fine one.
CoarseAfterFine(d) ==
    /\ net.now % HubClockStep = d
    /\ AdvanceClock(HubClockStep - d)

NextQueue ==
    \/ AdvanceClock(HubClockStep)
    \/ \E d \in FineSteps : CoarseAfterFine(d)
    \/ \E d \in FineSteps : FineAdvance(d)
    \/ Poll(HubAddr)
    \/ Poll(NodeAddr)
    \/ \E p \in SamplePayloads(NodeAddr) : Queue(NodeAddr, p)

(***************************************************************************)
(* FountainEncoder::new on its own: one payload and one symbol size are    *)
(* chosen and the constructor is called once.                              *)
(***************************************************************************)
MaxDataLen == 24

\* Payload lengths: the short ones and those around MAX_BLOCK_SYMBOLS.
SampleDataLens ==
    (0..MaxDataLen) \cup {MAX_BLOCK_SYMBOLS, MAX_BLOCK_SYMBOLS + 1}
SampleNewSizes == 0..3

EncoderInput(ks, n, symbol_size) ==
    [step |-> "input", ks |-> ks, msg |-> Rep(n, 170), symbol_size |-> symbol_size]

\* let enc = FountainEncoder::new(&msg, symbol_size, 1)
EncoderNew ==
    /\ fountain.step = "input"
    /\ fountain' = [step |-> "made", msg |-> fountain.msg,
                    symbol_size |-> fountain.symbol_size,
                    made |-> FountainEncoderNew(fountain.ks, fountain.msg,
                                                fountain.symbol_size, 1)]
    /\ UNCHANGED notFountain

NextEncoder == EncoderNew

(***************************************************************************)
(* m13-ulk: a FragmentAssembler on its own.  Fragments arrive in any       *)
(* order; the run keeps the assembler before the last ingest, the fragment *)
(* it was given, what it returned, and whether the ingest before that one  *)
(* reset the assembly over a total_len mismatch.                           *)
(***************************************************************************)
\* The fragment payload send_fragmented writes: total_len, offset, data.
FragmentPayload(total_len, offset, data) == U16BE(total_len) \o U16BE(offset) \o data

SampleFragments ==
    {FragmentPayload(t, o, d) :
         t \in {2, 3, 4}, o \in 0..2, d \in {<<17>>, <<34, 51>>}}
    \cup {<<0, 3, 0>>, FragmentPayload(MAX_REASSEMBLY + 1, 0, <<17>>)}

FragIdle == [step |-> "idle"]

FragStart ==
    [step |-> "run", asm |-> AssemblerNew, before |-> AssemblerNew,
     payload |-> <<>>, res |-> "none", full |-> <<>>,
     mismatched |-> FALSE, after_reset |-> FALSE]

\* Did ingest(payload) on assembler a find an assembly in progress with
\* another total_len?
Mismatch(a, payload) ==
    /\ Len(payload) >= 4
    /\ a.buffer # <<>>
    /\ FromU16BE(payload, 0) # a.expected_len

\* The run after ingest(payload) returned r.
FragIngested(f, payload, r) ==
    [step |-> "run", asm |-> r.asm, before |-> f.asm, payload |-> payload,
     res |-> r.res, full |-> r.full,
     mismatched |-> Mismatch(f.asm, payload), after_reset |-> f.mismatched]

\* let res = assembler.ingest(&payload)
Ingest(payload) ==
    /\ frag' = Then(ingest(frag.asm, payload),
                    LAMBDA r : FragIngested(frag, payload, r))
    /\ UNCHANGED notFrag

NextFragment == \E payload \in SampleFragments : Ingest(payload)

(***************************************************************************)
(* Reassembly of one message: send_fragmented cuts a payload into          *)
(* fragments, and the link hands them to the receiver's assembler in any   *)
(* order, any of them any number of times, some of them never.             *)
(***************************************************************************)
MaxWhole == 9                    \* bytes in a message: up to five fragments

\* The messages: the first n bytes of a pattern with no zero in it.
SampleWholes == {Eval([i \in 1..n |-> 17 * i]) : n \in 1..MaxWhole}

\* The fragment payloads send_fragmented makes of `whole`.
FragmentsOf(whole) ==
    {FragmentPayload(Len(whole), o,
                     SubSeq(whole, o + 1, Min(o + CHUNK_SIZE, Len(whole)))) :
         o \in {x \in 0..(Len(whole) - 1) : x % CHUNK_SIZE = 0}}

ReassemblyStart(whole) == [whole |-> whole] @@ FragStart

\* A fragment of the message arrives and is ingested.
Arrive(payload) ==
    /\ frag' = Then(ingest(frag.asm, payload),
                    LAMBDA r : [whole |-> frag.whole] @@ FragIngested(frag, payload, r))
    /\ UNCHANGED notFrag

NextReassembly == \E payload \in FragmentsOf(frag.whole) : Arrive(payload)

(***************************************************************************)
(* A handshake message from send_fragmented to an assembler.  The message  *)
(* is cut while the pool has `free` frames to give (none when the receive  *)
(* batch holds every frame of a small pool); its datagrams reach the       *)
(* assembler in the order they were sent, none lost, and the next message  *)
(* is cut when the last of them has been ingested.                         *)
(***************************************************************************)
MaxMessages == 2

HandshakeTypes == {"ClientHello", "HandshakeInit"}

\* The frames the pool can give when send_fragmented is called.
SampleFree == {0, 1, NODE_FRAMES}

OrderedStart ==
    [step |-> "run", asm |-> AssemblerNew, whole |-> <<>>, ptype |-> "ClientHello",
     free |-> 0, sent |-> <<>>, next |-> 1, results |-> <<>>, full |-> <<>>,
     messages |-> 0]

\* handle_packet, the payload of the datagram `data` as the header gives it.
DatagramPayload(data) ==
    SubSeq(data, HEADER_SIZE + 1,
           HEADER_SIZE + from_bytes(FrameHead(data)).h.payload_len)

\* Self::send_fragmented(&self.mem, phy, ptype, &whole, target)
SendWhole(whole, ptype, free) ==
    /\ frag.next > Len(frag.sent)
    /\ frag.messages < MaxMessages
    /\ frag' = [frag EXCEPT
                   !.whole = whole, !.ptype = ptype, !.free = free,
                   !.sent = send_fragmented([Ctx(NetStart, NodeAddr) EXCEPT !.k.free = free],
                                            ptype, whole, <<HubAddr>>, 0).out,
                   !.next = 1, !.results = <<>>, !.full = <<>>,
                   !.messages = @ + 1]
    /\ UNCHANGED notFrag

\* session.assembler.ingest(payload) of the next datagram.
IngestNext ==
    /\ frag.next <= Len(frag.sent)
    /\ frag' = Then(ingest(frag.asm, DatagramPayload(frag.sent[frag.next].data)),
                    LAMBDA r : [frag EXCEPT !.asm = r.asm, !.next = @ + 1,
                                            !.results = Append(@, r.res),
                                            !.full = r.full])
    /\ UNCHANGED notFrag

NextOrdered ==
    \/ \E whole \in SampleWholes, ptype \in HandshakeTypes, free \in SampleFree :
           SendWhole(whole, ptype, free)
    \/ IngestNext

(***************************************************************************)
(* m13-time: the jitter buffer.  The queue is a min-heap on the release    *)
(* time; among packets of equal release time the heap's order is not       *)
(* specified, so pop may return any of them.  A packet's payload is the    *)
(* number of the push that carried it.                                     *)
(***************************************************************************)
\* JitterBuffer::new(buffer_depth_us)
JitterBufferNew(buffer_depth_us) ==
    [buffer_depth_us |-> buffer_depth_us, queue |-> {}, drop_late_count |-> 0]

\* JitterBuffer::push(header, payload, origin_time_us, now_us)
push(jb, payload, origin_time_us, now_us) ==
    LET release_time == origin_time_us + jb.buffer_depth_us
    IN  IF release_time < now_us
        THEN [jb EXCEPT !.drop_late_count = @ + 1]
        ELSE [jb EXCEPT !.queue = @ \cup {[payload |-> payload,
                                          release_time_us |-> release_time]}]

\* self.queue.peek(): the packets the heap may have on top.
peek(jb) ==
    {p \in jb.queue : \A q \in jb.queue : p.release_time_us <= q.release_time_us}

\* A pop that hands out the top of the heap without looking at the time.
popEarly(jb, pkt, now_us) ==
    [jb |-> [jb EXCEPT !.queue = @ \ {pkt}], res |-> <<pkt>>]

\* JitterBuffer::pop(now_us) when the heap has pkt on top: <<>> is None.
pop(jb, pkt, now_us) ==
    IF pkt.release_time_us <= now_us
    THEN [jb |-> [jb EXCEPT !.queue = @ \ {pkt}], res |-> <<pkt>>]
    ELSE [jb |-> jb, res |-> <<>>]

(***************************************************************************)
(* A run of the jitter buffer: the receiver's clock only moves forward,    *)
(* packets are pushed with any origin time and pop is called at any time.  *)
(* `origins` holds the origin time of each push, `popped` the packets pop  *)
(* returned with the time of the call, `last` the last call.               *)
(***************************************************************************)
MaxTime == 5
MaxPushes == 3
SampleDepths == {2}

JitterIdle == [step |-> "idle"]

JitterStart(depth) ==
    [step |-> "run", jb |-> JitterBufferNew(depth), now |-> 0, origins |-> <<>>,
     popped |-> <<>>, last |-> [op |-> "new"], before |-> JitterBufferNew(depth)]

\* The receiver's clock advances.
Tick ==
    /\ jitter.now < MaxTime
    /\ jitter' = [jitter EXCEPT !.now = @ + 1, !.last = [op |-> "tick"],
                                !.before = jitter.jb]
    /\ UNCHANGED notJitter

\* jb.push(header, payload, origin, now) for the next packet.
Push(origin) ==
    /\ Len(jitter.origins) < MaxPushes
    /\ jitter' = [jitter EXCEPT
                      !.jb = push(@, Len(jitter.origins) + 1, origin, jitter.now),
                      !.origins = Append(@, origin),
                      !.last = [op |-> "push", origin |-> origin],
                      !.before = jitter.jb]
    /\ UNCHANGED notJitter

\* The run after pop(now) returned r.
Popped(j, r) ==
    [j EXCEPT !.jb = r.jb,
              !.popped = IF r.res = <<>> THEN @
                         ELSE Append(@, [pkt |-> r.res[1], at |-> j.now]),
              !.last = [op |-> "pop", res |-> r.res],
              !.before = j.jb]

\* let res = jb.pop(now)
Pop ==
    /\ \/ /\ jitter.jb.queue = {}
          /\ jitter' = Popped(jitter, [jb |-> jitter.jb, res |-> <<>>])
       \/ \E pkt \in peek(jitter.jb) :
              jitter' = Popped(jitter, pop(jitter.jb, pkt, jitter.now))
    /\ UNCHANGED notJitter

NextJitter ==
    \/ Tick
    \/ \E origin \in 0..MaxTime : Push(origin)
    \/ Pop

(***************************************************************************)
(* The specifications.                                                     *)
(***************************************************************************)
InitHeader ==
    /\ codec \in CodecNew
    /\ slab = SlabIdle
    /\ pacer = PacerIdle
    /\ pobs = PobsIdle
    /\ fountain = FountainIdle
    /\ net = NetIdle
    /\ frag = FragIdle
    /\ jitter = JitterIdle

SpecHeader == InitHeader /\ [][NextHeader]_vars

InitSlab ==
    /\ slab = SlabStart
    /\ codec = CodecIdle
    /\ pacer = PacerIdle
    /\ pobs = PobsIdle
    /\ fountain = FountainIdle
    /\ net = NetIdle
    /\ frag = FragIdle
    /\ jitter = JitterIdle

SpecSlab == InitSlab /\ [][NextSlab]_vars

InitPacer ==
    /\ pacer \in {PacerNew(f) : f \in SampleFloors}
    /\ pobs = PobsStart
    /\ codec = CodecIdle
    /\ slab = SlabIdle
    /\ fountain = FountainIdle
    /\ net = NetIdle
    /\ frag = FragIdle
    /\ jitter = JitterIdle

SpecPacer == InitPacer /\ [][NextPacer]_vars

InitFountain ==
    /\ fountain \in {FountainStart(ks, m, n, g) :
                         ks \in KeystreamSamples, m \in SampleMessages,
                         n \in SampleSymbolSizes, g \in SampleGenIds}
    /\ codec = CodecIdle
    /\ slab = SlabIdle
    /\ pacer = PacerIdle
    /\ pobs = PobsIdle
    /\ net = NetIdle
    /\ frag = FragIdle
    /\ jitter = JitterIdle

SpecFountain == InitFountain /\ [][NextFountain]_vars

InitLink ==
    /\ net = NetStart
    /\ codec = CodecIdle
    /\ slab = SlabIdle
    /\ pacer = PacerIdle
    /\ pobs = PobsIdle
    /\ fountain = FountainIdle
    /\ frag = FragIdle
    /\ jitter = JitterIdle

\* Each main loop polls for ever and the clock does not stop short of MaxNow.
FairLink ==
    /\ WF_vars(Poll(HubAddr))
    /\ WF_vars(Poll(NodeAddr))
    /\ WF_vars(\E d \in ClockSteps : AdvanceClock(d))

SpecLink == InitLink /\ [][NextLink]_vars /\ FairLink

InitKernel ==
    /\ net = NetStart
    /\ codec = CodecIdle
    /\ slab = SlabIdle
    /\ pacer = PacerIdle
    /\ pobs = PobsIdle
    /\ fountain = FountainIdle
    /\ frag = FragIdle
    /\ jitter = JitterIdle

SpecKernel == InitKernel /\ [][NextKernel]_vars

InitTraffic ==
    /\ net = NetStart
    /\ codec = CodecIdle
    /\ slab = SlabIdle
    /\ pacer = PacerIdle
    /\ pobs = PobsIdle
    /\ fountain = FountainIdle
    /\ frag = FragIdle
    /\ jitter = JitterIdle

SpecTraffic == InitTraffic /\ [][NextTraffic]_vars

InitHub ==
    /\ net = HubStart
    /\ codec = CodecIdle
    /\ slab = SlabIdle
    /\ pacer = PacerIdle
    /\ pobs = PobsIdle
    /\ fountain = FountainIdle
    /\ frag = FragIdle
    /\ jitter = JitterIdle

SpecHub == InitHub /\ [][NextHub]_vars

InitEgress ==
    /\ net = HubStart
    /\ codec = CodecIdle
    /\ slab = SlabIdle
    /\ pacer = PacerIdle
    /\ pobs = PobsIdle
    /\ fountain = FountainIdle
    /\ frag = FragIdle
    /\ jitter = JitterIdle

SpecEgress == InitEgress /\ [][NextEgress]_vars

InitEncoder ==
    /\ fountain \in {EncoderInput(ks, n, s) :
                         ks \in KeystreamSamples, n \in SampleDataLens,
                         s \in SampleNewSizes}
    /\ codec = CodecIdle
    /\ slab = SlabIdle
    /\ pacer = PacerIdle
    /\ pobs = PobsIdle
    /\ net = NetIdle
    /\ frag = FragIdle
    /\ jitter = JitterIdle

SpecEncoder == InitEncoder /\ [][NextEncoder]_vars

InitFragment ==
    /\ frag = FragStart
    /\ codec = CodecIdle
    /\ slab = SlabIdle
    /\ pacer = PacerIdle
    /\ pobs = PobsIdle
    /\ fountain = FountainIdle
    /\ net = NetIdle
    /\ jitter = JitterIdle

SpecFragment == InitFragment /\ [][NextFragment]_vars

InitJitter ==
    /\ jitter \in {JitterStart(d) : d \in SampleDepths}
    /\ codec = CodecIdle
    /\ slab = SlabIdle
    /\ pacer = PacerIdle
    /\ pobs = PobsIdle
    /\ fountain = FountainIdle
    /\ net = NetIdle
    /\ frag = FragIdle

SpecJitter == InitJitter /\ [][NextJitter]_vars

InitEstimator ==
    /\ pacer = EstimatorNew
    /\ pobs = EstimatorStart
    /\ codec = CodecIdle
    /\ slab = SlabIdle
    /\ fountain = FountainIdle
    /\ net = NetIdle
    /\ frag = FragIdle
    /\ jitter = JitterIdle

SpecEstimator == InitEstimator /\ [][NextEstimator]_vars

InitPaced ==
    /\ net = NetStart
    /\ codec = CodecIdle
    /\ slab = SlabIdle
    /\ pacer = PacerIdle
    /\ pobs = PobsIdle
    /\ fountain = FountainIdle
    /\ frag = FragIdle
    /\ jitter = JitterIdle

SpecPaced == InitPaced /\ [][NextPaced]_vars

InitField ==
    /\ fountain \in {FieldInput(a, b) : a \in 0..255, b \in 0..255}
    /\ codec = CodecIdle
    /\ slab = SlabIdle
    /\ pacer = PacerIdle
    /\ pobs = PobsIdle
    /\ net = NetIdle
    /\ frag = FragIdle
    /\ jitter = JitterIdle

SpecField == InitField /\ [][NextField]_vars

InitDelay ==
    /\ net = NetStart
    /\ codec = CodecIdle
    /\ slab = SlabIdle
    /\ pacer = PacerIdle
    /\ pobs = PobsIdle
    /\ fountain = FountainIdle
    /\ frag = FragIdle
    /\ jitter = JitterIdle

SpecDelay == InitDelay /\ [][NextDelay]_vars

InitForged ==
    /\ net = ForgedStart
    /\ codec = CodecIdle
    /\ slab = SlabIdle
    /\ pacer = PacerIdle
    /\ pobs = PobsIdle
    /\ fountain = FountainIdle
    /\ frag = FragIdle
    /\ jitter = JitterIdle

SpecForged == InitForged /\ [][NextForged]_vars

InitPool ==
    /\ net \in {PoolStart(frames) : frames \in SamplePools}
    /\ codec = CodecIdle
    /\ slab = SlabIdle
    /\ pacer = PacerIdle
    /\ pobs = PobsIdle
    /\ fountain = FountainIdle
    /\ frag = FragIdle
    /\ jitter = JitterIdle

SpecPool == InitPool /\ [][NextPool]_vars

InitShort ==
    /\ net = ShortStart
    /\ codec = CodecIdle
    /\ slab = SlabIdle
    /\ pacer = PacerIdle
    /\ pobs = PobsIdle
    /\ fountain = FountainIdle
    /\ frag = FragIdle
    /\ jitter = JitterIdle

SpecShort == InitShort /\ [][NextShort]_vars

InitQueue ==
    /\ net = NetStart
    /\ codec = CodecIdle
    /\ slab = SlabIdle
    /\ pacer = PacerIdle
    /\ pobs = PobsIdle
    /\ fountain = FountainIdle
    /\ frag = FragIdle
    /\ jitter = JitterIdle

SpecQueue == InitQueue /\ [][NextQueue]_vars

InitOrdered ==
    /\ frag = OrderedStart
    /\ codec = CodecIdle
    /\ slab = SlabIdle
    /\ pacer = PacerIdle
    /\ pobs = PobsIdle
    /\ fountain = FountainIdle
    /\ net = NetIdle
    /\ jitter = JitterIdle

SpecOrdered == InitOrdered /\ [][NextOrdered]_vars

InitRepeat ==
    /\ fountain \in {RepeatStart(ks, <<77>>, n, g) :
                         ks \in KeystreamSamples,
                         n \in SampleSymbolSizes, g \in SampleGenIds}
    /\ codec = CodecIdle
    /\ slab = SlabIdle
    /\ pacer = PacerIdle
    /\ pobs = PobsIdle
    /\ net = NetIdle
    /\ frag = FragIdle
    /\ jitter = JitterIdle

SpecRepeat == InitRepeat /\ [][NextRepeat]_vars

InitLong ==
    /\ net = NetStart
    /\ codec = CodecIdle
    /\ slab = SlabIdle
    /\ pacer = PacerIdle
    /\ pobs = PobsIdle
    /\ fountain = FountainIdle
    /\ frag = FragIdle
    /\ jitter = JitterIdle

SpecLong == InitLong /\ [][NextLong]_vars

InitReserved ==
    /\ fountain \in {ReservedStart(k) : k \in 1..MAX_BLOCK_SYMBOLS}
    /\ codec = CodecIdle
    /\ slab = SlabIdle
    /\ pacer = PacerIdle
    /\ pobs = PobsIdle
    /\ net = NetIdle
    /\ frag = FragIdle
    /\ jitter = JitterIdle

SpecReserved == InitReserved /\ [][NextReserved]_vars

InitReassembly ==
    /\ frag \in {ReassemblyStart(w) : w \in SampleWholes}
    /\ codec = CodecIdle
    /\ slab = SlabIdle
    /\ pacer = PacerIdle
    /\ pobs = PobsIdle
    /\ fountain = FountainIdle
    /\ net = NetIdle
    /\ jitter = JitterIdle

SpecReassembly == InitReassembly /\ [][NextReassembly]_vars

(***************************************************************************)
(* Claims about the slab pool (SpecSlab).                                  *)
(***************************************************************************)

\* C6: every lease alloc returns has len = 0 and an all-zero data buffer,
\* whatever the previous holder of the frame wrote into it.
C6_LeaseIsZeroed ==
    slab.last.kind = "lease" =>
        /\ slab.last.frame.len = 0
        /\ \A i \in 1..Len(slab.last.frame.data) : slab.last.frame.data[i] = 0

\* C6's case: alloc hands out a frame whose previous holder dropped it with
\* data or a length written.
C6_Witness ==
    /\ slab.last.kind = "lease"
    /\ slab.last.reused

\* C7: available() plus the live leases is the capacity; alloc returns
\* nothing exactly when capacity leases are live.
C7_PoolConservation ==
    /\ SlabAvailable(slab.pool) + Len(slab.leases) = SlabCapacity
    /\ slab.last.kind = "fail" => slab.last.live = SlabCapacity
    /\ slab.last.kind = "lease" => slab.last.live < SlabCapacity

\* C7's case: an alloc succeeds right after one that returned nothing (a
\* lease was dropped in between) and the pool is exhausted again.
C7_Witness ==
    /\ slab.last.kind = "lease"
    /\ slab.last.prev = "fail"
    /\ SlabAvailable(slab.pool) = 0

(***************************************************************************)
(* Claims about the pacer (SpecPacer).                                     *)
(***************************************************************************)

\* The ceiling a pacer built with this CBR floor has before any ack.
BurstCapAtNew == PacerTargetRate(PacerNew(pacer.min_rate_floor * 8), 0) \div 10

C9_ChaffAndDebt ==
    /\ pobs.op = "chaff" => (pobs.res <=> pacer.tokens >= pobs.arg)
    /\ pobs.op = "consume" => pacer.tokens = pobs.prev - pobs.arg
    /\ (pobs.op = "tick" /\ pobs.effective
            /\ pobs.prev + MulDivMicro(pobs.rate, pobs.delta) >= pobs.rate \div 10) =>
           \A m \in SampleMtus \cup {pobs.rate \div 10} :
               m <= pobs.rate \div 10 => PacerChaffNeeded(pacer, m)
    /\ pacer.tokens < 0 =>
           \A m \in SampleMtus \cup {pobs.lastcap} : m > 0 => ~PacerChaffNeeded(pacer, m)

\* C9's case (the test's): the bucket was full, a consume larger than the
\* balance put it in debt.
C9_Witness ==
    /\ pobs.op = "consume"
    /\ pobs.ticked
    /\ pobs.prev = pobs.lastcap
    /\ pobs.arg > pobs.prev
    /\ pacer.tokens < 0

(***************************************************************************)
(* Claims about the header codec (SpecHeader).                             *)
(***************************************************************************)

\* The eight type tags of the wire format.
KnownTypeTags == {1, 2, 240, 255, 16, 17, 18, 19}

\* C10: from_bytes(to_bytes(h)) = h for every header with the protocol magic
\* and a known type; from_bytes rejects a buffer shorter than 32 bytes, one
\* whose magic differs and one whose type byte is not a known tag.
C10_HeaderRoundTrip ==
    codec.step = "read" =>
        /\ (codec.wrote /\ codec.tampered = 0 /\ ~codec.cut) =>
               (codec.res.ok /\ codec.res.h = codec.h)
        /\ Len(codec.buf) < HEADER_SIZE => ~codec.res.ok
        /\ (Len(codec.buf) >= HEADER_SIZE /\ SubSeq(codec.buf, 1, 4) # U32BE(M13_MAGIC)) =>
               ~codec.res.ok
        /\ (Len(codec.buf) >= HEADER_SIZE /\ codec.buf[6] \notin KnownTypeTags) =>
               ~codec.res.ok

\* C10's case: a header written and read back unchanged.
C10_Witness ==
    /\ codec.step = "read"
    /\ codec.wrote /\ codec.tampered = 0 /\ ~codec.cut
    /\ codec.res.ok
    /\ codec.h.packet_type = "HandshakeAuth"

(***************************************************************************)
(* Claims about the fountain code (SpecFountain).                          *)
(***************************************************************************)

\* The rank of a sequence of rows over GF(2^8), by elimination on the
\* columns from col on.
RECURSIVE RankFrom(_, _, _)
RankFrom(rows, col, cols) ==
    IF col > cols \/ Len(rows) = 0 THEN 0
    ELSE LET nz == {r \in 1..Len(rows) : rows[r][col] # 0}
         IN  IF nz = {} THEN RankFrom(rows, col + 1, cols)
             ELSE LET p == CHOOSE r \in nz : TRUE
                      inv == GfInv(rows[p][col])
                      Reduced(row) ==
                          Eval([c \in 1..cols |->
                                   GfAdd(row[c], GfMul(GfMul(row[col], inv), rows[p][c]))])
                  IN  1 + RankFrom(Eval([r \in 1..(Len(rows) - 1) |->
                                            Reduced(rows[IF r < p THEN r ELSE r + 1])]),
                                   col + 1, cols)

\* The rank of the equations of the symbols `ids`, together with the S
\* constraint rows.
EquationRank(ids) ==
    LET k == fountain.dec.block_size_k
        l == fountain.dec.extended_size_l
    IN  RankFrom([i \in 1..LDPC_OVERHEAD_S |->
                     LdpcRow(fountain.ks, i - 1, k, fountain.dec.gen_id)]
                 \o [n \in 1..Len(ids) |-> RowCoeffs(fountain.ks, fountain.dec, ids[n])],
                 1, l)

\* The payload followed by zero padding up to K symbols.
PaddedMessage ==
    Eval([i \in 1..(fountain.dec.block_size_k * fountain.dec.symbol_size) |->
             IF i <= Len(fountain.msg) THEN fountain.msg[i] ELSE 0])

\* C5 as stated: whenever the equations of the symbols received so far have
\* rank L, the decoder has returned the padded payload.
C5_AnyRankLSet ==
    EquationRank(fountain.arrived) = fountain.dec.extended_size_l
        => fountain.outs = <<PaddedMessage>>

\* C5 amended: the decoder returns nothing but the padded payload, once; and
\* it has returned it whenever the equations of the symbols it had room for
\* (the first K + spare arrivals) have rank L, whatever their order.
C5_RankLWithinCapacity ==
    LET room == fountain.dec.block_size_k + SPARE_ROWS
        kept == SubSeq(fountain.arrived, 1, Min(Len(fountain.arrived), room))
    IN  /\ fountain.outs \in {<<>>, <<PaddedMessage>>}
        /\ EquationRank(kept) = fountain.dec.extended_size_l
               => fountain.outs = <<PaddedMessage>>

\* C5's case: a padded two-symbol payload is recovered although source
\* symbol 0 never arrived and the symbols arrived out of order.
C5_Witness ==
    /\ fountain.outs = <<PaddedMessage>>
    /\ fountain.dec.block_size_k = 2
    /\ Len(fountain.msg) < 2 * fountain.dec.symbol_size
    /\ \A n \in 1..Len(fountain.arrived) : fountain.arrived[n] # 0
    /\ \E n \in 1..(Len(fountain.arrived) - 1) :
           fountain.arrived[n] > fountain.arrived[n + 1]

\* The symbols that arrived before the last one.
ArrivedBefore == SubSeq(fountain.arrived, 1, Len(fountain.arrived) - 1)

\* Did the last symbol raise the rank of the received equations to L?
RankCompleted ==
    /\ EquationRank(fountain.arrived) = fountain.dec.extended_size_l
    /\ EquationRank(ArrivedBefore) < fountain.dec.extended_size_l

\* C18 as stated: receive_symbol never fails on a symbol of the generation,
\* and whatever arrived before, the symbol that raises the rank of the
\* received equations to L makes it return the payload.
C18_AnyFurtherSymbol ==
    Len(fountain.arrived) >= 1 =>
        /\ fountain.last \in {"none", "data"}
        /\ RankCompleted => (fountain.last = "data" /\ fountain.outs = <<PaddedMessage>>)

\* C18 amended: receive_symbol never fails on a symbol of the generation;
\* while the decoder has a row left (the first K + spare arrivals) it
\* returns the payload at exactly the symbol that raises the rank to L and
\* "no result yet" at every other symbol, a singular system included; a
\* symbol that arrives when no row is left is dropped with "no result yet".
C18_FurtherSymbolWithinCapacity ==
    Len(fountain.arrived) >= 1 =>
        /\ fountain.last \in {"none", "data"}
        /\ IF Len(fountain.arrived) <= fountain.dec.block_size_k + SPARE_ROWS
           THEN IF RankCompleted
                THEN fountain.last = "data" /\ fountain.outs = <<PaddedMessage>>
                ELSE fountain.last = "none"
           ELSE fountain.last = "none"

\* C18's case: elimination was tried on a singular system (K or more symbols
\* had arrived, rank below L) and the next symbol completed the rank and
\* brought the payload.
C18_Witness ==
    /\ fountain.step = "run"
    /\ Len(fountain.arrived) > fountain.dec.block_size_k
    /\ RankCompleted
    /\ fountain.last = "data"
    /\ fountain.outs = <<PaddedMessage>>

(***************************************************************************)
(* Claims about the kernel.                                                *)
(***************************************************************************)
\* The cipher the kernel k holds for `peer`, <<>> when it holds none.
SessionCipher(k, peer) ==
    IF peer \in DOMAIN k.sessions THEN k.sessions[peer].cipher ELSE <<>>

\* A symbol header neither kernel has used.
ProbeHeader == [FragmentHeader("Coded", 2) EXCEPT !.gen_id = 9, !.symbol_id = 9]

\* What encrypt_detached returned as e decrypts under `key`.
OpensSealed(e, key) ==
    decrypt_detached(e.seals, key, [ProbeHeader EXCEPT !.auth_tag = e.tag], e.payload).ok

\* A payload encrypted with the cipher tx decrypts with the cipher rx.
Opens(tx, rx) ==
    /\ tx # <<>>
    /\ rx # <<>>
    /\ OpensSealed(encrypt_detached(net.seals, tx[1], ProbeHeader, <<1, 2>>), rx[1])

\* The node's session for the hub and the hub's session for the node hold
\* ciphers of one shared secret: each side decrypts what the other encrypts.
LinkAgreed ==
    /\ Opens(SessionCipher(net.kern[NodeAddr], HubAddr),
             SessionCipher(net.kern[HubAddr], NodeAddr))
    /\ Opens(SessionCipher(net.kern[HubAddr], NodeAddr),
             SessionCipher(net.kern[NodeAddr], HubAddr))

\* C1: on a lossless, in-order link between one node and one hub, once the
\* node's clock has passed the 2 s cold-start threshold the handshake
\* completes: eventually both sessions hold a cipher of the same shared
\* secret, so that a payload encrypted by one side decrypts on the other.
C1_HandshakeCompletes == (net.now > HANDSHAKE_RETRY_US) ~> LinkAgreed

\* C2: the node installs a session cipher from a reassembled HandshakeInit
\* only if the signature that follows the KEM ciphertext verifies, under the
\* hub's identity, over that ciphertext.
C2_CipherOnlyIfSigned ==
    \A i \in 1..Len(net.installs) :
        dsa_verify(HubIdentity,
                   SubSeq(net.installs[i], KYBER_CT_LEN_1024 + 1, Len(net.installs[i])),
                   SubSeq(net.installs[i], 1, KYBER_CT_LEN_1024))

\* C3: under any one session key no (gen_id, symbol_id) nonce is used for
\* more than one encrypt_detached call, whichever side made the call.
C3_NoncesDistinct ==
    \A i \in 1..Len(net.seals) : \A j \in 1..Len(net.seals) :
        (i # j /\ net.seals[i].key = net.seals[j].key)
            => net.seals[i].nonce # net.seals[j].nonce

\* C4: peer input is never fatal: whatever datagram arrives from whatever
\* address, handle_packet returns normally, in the hub and in the node.
C4_PeerInputNeverFatal ==
    \A a \in {HubAddr, NodeAddr} : ~net.kern[a].panicked


(***************************************************************************)
(* Claims about FountainEncoder::new (SpecEncoder).                        *)
(***************************************************************************)
\* ceil(n / symbol_size) for symbol_size > 0.
CeilDiv(n, symbol_size) == (n + symbol_size - 1) \div symbol_size

\* C19: every encoder new() returns has 0 < K <= 256 with K the payload
\* length over symbol_size rounded up, and new() fails for a payload of
\* more than 256 symbols, for an empty payload (K = 0) and for symbol_size 0.
C19_EncoderBounds ==
    fountain.step = "made" =>
        /\ fountain.made.ok =>
               /\ 0 < fountain.made.enc.block_size_k
               /\ fountain.made.enc.block_size_k <= MAX_BLOCK_SYMBOLS
               /\ fountain.made.enc.block_size_k =
                      CeilDiv(Len(fountain.msg), fountain.symbol_size)
        /\ fountain.symbol_size = 0 => ~fountain.made.ok
        /\ (fountain.symbol_size > 0 /\ Len(fountain.msg) = 0) => ~fountain.made.ok
        /\ (fountain.symbol_size > 0
              /\ CeilDiv(Len(fountain.msg), fountain.symbol_size) > MAX_BLOCK_SYMBOLS)
               => ~fountain.made.ok


(***************************************************************************)
(* Claims about fragment reassembly (SpecFragment).                        *)
(***************************************************************************)
\* A zeroed buffer of total_len bytes with data copied at offset.
FreshWith(total_len, offset, data) ==
    Eval([i \in 1..total_len |->
             IF i > offset /\ i <= offset + Len(data) THEN data[i - offset] ELSE 0])

\* The last fragment's total_len, offset and data.
FragTotal == FromU16BE(frag.payload, 0)
FragOffset == FromU16BE(frag.payload, 2)
FragData == SubSeq(frag.payload, 5, Len(frag.payload))

\* C17: a fragment whose total_len differs from that of the assembly in
\* progress gets InvalidState and leaves the assembler with no partial
\* bytes; the fragment after it starts a new assembly sized by its own
\* total_len, in a zeroed buffer that holds that fragment's bytes only.
C17_MismatchResets ==
    /\ frag.mismatched =>
           /\ frag.res = "InvalidState"
           /\ frag.asm.buffer = <<>>
    /\ (frag.after_reset /\ Len(frag.payload) >= 4 /\ FragTotal <= MAX_REASSEMBLY) =>
           /\ frag.res # "InvalidState"
           /\ frag.res = "WireFormatError" =>
                  /\ FragOffset + Len(FragData) > FragTotal
                  /\ frag.asm = [buffer |-> Rep(FragTotal, 0), expected_len |-> FragTotal]
           /\ frag.res = "none" =>
                  frag.asm = [buffer |-> FreshWith(FragTotal, FragOffset, FragData),
                              expected_len |-> FragTotal]
           /\ frag.res = "some" =>
                  frag.full = FreshWith(FragTotal, FragOffset, FragData)

\* A mismatch reset an assembly that held bytes, and the next fragment began
\* an assembly of another size than the one reset.
C17_Witness ==
    /\ frag.after_reset
    /\ frag.res = "none"
    /\ frag.before.buffer = <<>>
    /\ frag.before.expected_len # 0
    /\ FragTotal # frag.before.expected_len
    /\ Len(frag.asm.buffer) = FragTotal


(***************************************************************************)
(* Claims about the jitter buffer (SpecJitter).                            *)
(***************************************************************************)
\* The release time of the packet of push number n.
ReleaseOf(n) == jitter.origins[n] + jitter.jb.buffer_depth_us

\* The queued packets pop could release at the time of the last call.
DueBefore == {p \in jitter.before.queue : p.release_time_us <= jitter.now}

\* C20: a packet pushed with origin o into a buffer of depth D is never
\* popped at a time before o + D; pop returns a packet of the least release
\* time as soon as that time has come, so packets leave in non-decreasing
\* release order; a push with o + D < now queues nothing and adds exactly
\* one to drop_late_count, any other push queues the packet and counts
\* nothing.
C20_JitterRelease ==
    /\ \A n \in 1..Len(jitter.popped) :
           /\ jitter.popped[n].pkt.release_time_us = ReleaseOf(jitter.popped[n].pkt.payload)
           /\ jitter.popped[n].at >= ReleaseOf(jitter.popped[n].pkt.payload)
           /\ n > 1 => jitter.popped[n - 1].pkt.release_time_us
                           <= jitter.popped[n].pkt.release_time_us
    /\ jitter.last.op = "pop" =>
           IF DueBefore = {}
           THEN jitter.last.res = <<>> /\ jitter.jb = jitter.before
           ELSE /\ jitter.last.res # <<>>
                /\ jitter.last.res[1] \in DueBefore
                /\ \A p \in jitter.before.queue :
                       jitter.last.res[1].release_time_us <= p.release_time_us
                /\ jitter.jb.queue = jitter.before.queue \ {jitter.last.res[1]}
                /\ jitter.jb.drop_late_count = jitter.before.drop_late_count
    /\ jitter.last.op = "push" =>
           IF jitter.last.origin + jitter.jb.buffer_depth_us < jitter.now
           THEN /\ jitter.jb.queue = jitter.before.queue
                /\ jitter.jb.drop_late_count = jitter.before.drop_late_count + 1
           ELSE /\ jitter.jb.queue = jitter.before.queue
                       \cup {[payload |-> Len(jitter.origins),
                              release_time_us |-> ReleaseOf(Len(jitter.origins))]}
                /\ jitter.jb.drop_late_count = jitter.before.drop_late_count

\* One packet was dropped as late and two were popped in the reverse of the
\* order they were pushed in, the second at a later release time.
C20_Witness ==
    /\ jitter.step = "run"
    /\ jitter.jb.drop_late_count = 1
    /\ Len(jitter.popped) = 2
    /\ jitter.popped[1].pkt.payload > jitter.popped[2].pkt.payload
    /\ jitter.popped[1].pkt.release_time_us < jitter.popped[2].pkt.release_time_us


(***************************************************************************)
(* Claims about the cold handshake (SpecLink).                             *)
(***************************************************************************)
\* The datagrams a step put into the socket of the kernel at b.
SentTo(b) == SubSeq(net'.inbox[b], Len(net.inbox[b]) + 1, Len(net'.inbox[b]))

\* Does the datagram carry a ClientHello header?
IsClientHello(d) ==
    /\ from_bytes(FrameHead(d.data)).ok
    /\ from_bytes(FrameHead(d.data)).h.packet_type = "ClientHello"

\* The fragments of a ClientHello that carries the public key pk, as the
\* hub's socket receives them from the node.
HelloFragments(pk) ==
    [i \in 1..((Len(pk) + CHUNK_SIZE - 1) \div CHUNK_SIZE) |->
        [src |-> NodeAddr,
         data |-> FragmentDatagram("ClientHello", pk, (i - 1) * CHUNK_SIZE,
                                   Min(i * CHUNK_SIZE, Len(pk)))]]

\* No session of kernel k holds a cipher.
Cold(k) == \A p \in DOMAIN k.sessions : k.sessions[p].cipher = <<>>

\* A poll of the node that starts a handshake: a keypair not drawn before,
\* the time recorded, the fragments of its public key sent to the hub.
Retried ==
    /\ net'.kern[NodeAddr].rng = net.kern[NodeAddr].rng + 1
    /\ net'.kern[NodeAddr].last_handshake_tx = net.now
    /\ SelectSeq(SentTo(HubAddr), IsClientHello)
           = HelloFragments(KemPublic(net.kern[NodeAddr].rng + 1))

\* A poll of the node that starts none.
NotRetried ==
    /\ net'.kern[NodeAddr].rng = net.kern[NodeAddr].rng
    /\ net'.kern[NodeAddr].last_handshake_tx = net.kern[NodeAddr].last_handshake_tx
    /\ SelectSeq(SentTo(HubAddr), IsClientHello) = <<>>

\* A poll of the hub sends no ClientHello and keeps no handshake state.
HubNeverInitiates ==
    /\ SelectSeq(SentTo(NodeAddr), IsClientHello) = <<>>
    /\ net'.kern[HubAddr].last_handshake_tx = 0
    /\ net'.kern[HubAddr].pending_kyber = <<>>

HubPolls ==
    /\ net'.now = net.now
    /\ net'.hello = net.hello
    /\ net'.sent = net.sent
    /\ net'.strays = net.strays
    /\ net'.queued = net.queued
    /\ Poll(HubAddr)

\* What a poll of the hub would do with the datagrams `inbox`.
HubPollOn(inbox) == poll(Ctx(net, HubAddr), inbox, net.now)

\* What a poll leaves behind, the count of cached and free frames apart: the
\* kernel, the datagrams sent and the encryptions made.
PollOutcome(c) ==
    [k |-> [c.k EXCEPT !.free = 0, !.rx_batch_cache = 0],
     out |-> c.out, seals |-> c.seals]

FromV4(d) == d.src \in V4Addrs

\* C11: the hub drops a datagram whose source is not a V4 address before
\* any handler sees it: a poll ends as it would have ended without these
\* datagrams (sessions, routes, decoders, queues, what is sent), and every
\* key of the hub's sessions is a V4 address.
C11_NonV4Dropped ==
    [][/\ DOMAIN net'.kern[HubAddr].sessions \subseteq V4Addrs
       /\ (/\ SelectSeq(net.inbox[HubAddr], FromV4) # net.inbox[HubAddr]
           /\ HubPolls)
            => PollOutcome(HubPollOn(net.inbox[HubAddr]))
                   = PollOutcome(HubPollOn(SelectSeq(net.inbox[HubAddr], FromV4)))]_vars

\* The hub polled a ClientHello that came from an address that is not V4,
\* and the ClientHello of the node as well.
C11_Witness ==
    /\ Len(net.strays) >= 1
    /\ net.strays[1] \in {1, 2}
    /\ ~FromV4(StraySamples[net.strays[1]])
    /\ net.inbox[HubAddr] = <<>>
    /\ DOMAIN net.kern[HubAddr].sessions = {NodeAddr}

\* Does the hub hold a session for the datagram's source, or does the batch
\* bring a ClientHello from it?
FromKnownOrHello(d) ==
    \/ d.src \in DOMAIN net.kern[HubAddr].sessions
    \/ \E i \in 1..Len(net.inbox[HubAddr]) :
           /\ net.inbox[HubAddr][i].src = d.src
           /\ IsClientHello(net.inbox[HubAddr][i])

\* C12: on a hub a datagram from a peer with no session opens a session only
\* if it is a ClientHello; any other datagram from such a peer is discarded
\* and changes nothing: the poll ends as it would have ended without it.
C12_UnknownPeerNeedsHello ==
    [][/\ \A p \in (DOMAIN net'.kern[HubAddr].sessions)
                       \ (DOMAIN net.kern[HubAddr].sessions) :
              \E i \in 1..Len(net.inbox[HubAddr]) :
                  /\ net.inbox[HubAddr][i].src = p
                  /\ IsClientHello(net.inbox[HubAddr][i])
       /\ (/\ SelectSeq(net.inbox[HubAddr], FromKnownOrHello) # net.inbox[HubAddr]
           /\ HubPolls)
            => PollOutcome(HubPollOn(net.inbox[HubAddr]))
                   = PollOutcome(HubPollOn(SelectSeq(net.inbox[HubAddr],
                                                     FromKnownOrHello)))]_vars

\* The hub polled a datagram of the third party that was no ClientHello while
\* it held no session for it, and holds none after; the node's ClientHello
\* opened one.
C12_Witness ==
    /\ Len(net.strays) >= 1
    /\ StraySamples[net.strays[1]].src = MalloryAddr
    /\ MalloryAddr \notin net.hello
    /\ net.inbox[HubAddr] = <<>>
    /\ DOMAIN net.kern[HubAddr].sessions = {NodeAddr}

\* The payload is no IPv4 packet or the routing table k has no peer for its
\* destination.
Unroutable(routes, payload) ==
    \/ parse_ipv4_headers(payload) = <<>>
    \/ parse_ipv4_headers(payload)[2] \notin DOMAIN routes

\* Every datagram of `out` is a fragment of a HandshakeInit.
OnlyReplies(out) ==
    \A i \in 1..Len(out) :
        from_bytes(FrameHead(out[i].data)).h.packet_type = "HandshakeInit"

\* C14: a hub with no generation in progress whose queued payloads have no
\* route (after the poll's own ingress) drops what it takes off the queue:
\* no symbol is sent (the poll sends handshake replies at most), nothing is
\* encrypted, no encoder is created and the generation counter stays.
C14_UnroutableDropped ==
    [][(/\ net.kern[HubAddr].tun_tx_queue # <<>>
        /\ net.kern[HubAddr].data_encoder = <<>>
        /\ HubPolls
        /\ \A i \in 1..Len(net.kern[HubAddr].tun_tx_queue) :
               Unroutable(net'.kern[HubAddr].routes, net.kern[HubAddr].tun_tx_queue[i]))
         => /\ net'.kern[HubAddr].data_encoder = <<>>
            /\ net'.kern[HubAddr].next_data_gen_id = net.kern[HubAddr].next_data_gen_id
            /\ net'.seals = net.seals
            /\ OnlyReplies(Then(HubPollOn(net.inbox[HubAddr]), LAMBDA c : c.out))
            /\ \E n \in 0..Len(net.kern[HubAddr].tun_tx_queue) :
                   net'.kern[HubAddr].tun_tx_queue
                       = SubSeq(net.kern[HubAddr].tun_tx_queue, n + 1,
                                Len(net.kern[HubAddr].tun_tx_queue))]_vars

\* The hub took a payload with no route off its queue: a peer holds a
\* session, the queue is empty again, the counter is where it started.
C14_Witness ==
    /\ net.queued[HubAddr] >= 1
    /\ net.kern[HubAddr].tun_tx_queue = <<>>
    /\ net.kern[HubAddr].routes = <<>>
    /\ net.kern[HubAddr].data_encoder = <<>>
    /\ net.kern[HubAddr].next_data_gen_id = 1
    /\ NodeAddr \in DOMAIN net.kern[HubAddr].sessions
    /\ net.kern[HubAddr].sessions[NodeAddr].cipher # <<>>

\* Peer p's payload as a decoder returns it: padded to whole symbols.
PeerPadded(p) ==
    Eval([i \in 1..(PeerEncoder(p).block_size_k * RAPTOR_SYMBOL_SIZE) |->
             IF i <= Len(PeerPayload(p)) THEN PeerPayload(p)[i] ELSE 0])

\* C15: decoders are kept per peer session and generation, so every payload
\* the hub decodes is computed from the symbols of one peer: it is the
\* payload that peer encoded.
C15_DecodedFromOnePeer ==
    \A i \in 1..Len(net.kern[HubAddr].tun_rx_queue) :
        \E p \in Peers : net.kern[HubAddr].tun_rx_queue[i] = PeerPadded(p)


(***************************************************************************)
(* Claims about route learning (SpecTraffic).                              *)
(***************************************************************************)
\* The routing table after the payloads from the i-th on, all decoded from
\* peer's symbols, were learned in order: the source address of each that
\* parses as IPv4 is bound to the peer, an earlier binding replaced.
RECURSIVE Learned(_, _, _, _)
Learned(routes, payloads, i, peer) ==
    IF i > Len(payloads) THEN routes
    ELSE Learned(IF parse_ipv4_headers(payloads[i]) # <<>>
                 THEN [a \in DOMAIN routes \cup {parse_ipv4_headers(payloads[i])[1]} |->
                          IF a = parse_ipv4_headers(payloads[i])[1] THEN peer
                          ELSE routes[a]]
                 ELSE routes,
                 payloads, i + 1, peer)

\* The payloads a step added to the ingress queue of the kernel at a.
NewlyDelivered(a) ==
    SubSeq(net'.kern[a].tun_rx_queue, Len(net.kern[a].tun_rx_queue) + 1,
           Len(net'.kern[a].tun_rx_queue))

InWindow(given, now) ==
    {i \in 1..Len(given) : given[i][1] <= now /\ now - given[i][1] <= BTL_BW_WINDOW}

\* The largest delivered bandwidth among them, the fallback when there is none.
WindowBandwidth(given, now) ==
    LET live == InWindow(given, now)
    IN IF live = {} THEN FALLBACK_BW
       ELSE LET i == CHOOSE i \in live : \A j \in live : given[j][2] <= given[i][2]
            IN given[i][2]

\* C21 as stated: the rate returned by get_pacing_rate_bps(now) is 289/100 of
\* the largest delivered bandwidth among all samples given to on_ack with a
\* timestamp in the 10 s window ending at now, however many samples were
\* given, and 289/100 of the 1,000,000 bps fallback when there is none.
\* Violated: the filter keeps the latest ten samples only.
C21_WindowedMax ==
    pobs.op = "rate" =>
        pobs.rate = (STARTUP_GAIN * WindowBandwidth(pobs.given, pobs.now)) \div 100

(***************************************************************************)
(* Claims about poll's return value (SpecPaced).                           *)
(***************************************************************************)
\* The step is a poll of the kernel at a that found no datagram waiting and
\* put none on the link.
QuietPoll(a) ==
    /\ net'.now = net.now
    /\ net'.queued = net.queued
    /\ net'.inbox = net.inbox
    /\ BatchCount(net.kern[a], net.inbox[a]) = 0
    /\ Poll(a)

\* C22 as stated: a poll that initiated no handshake, received no datagram
\* and handed nothing to the transport returns false.
\* Violated: a poll that finds an encoder, or installs one, returns true even
\* when the pacer let no symbol out.
C22_NoWorkReturnsFalse ==
    [][\A a \in {HubAddr, NodeAddr} :
           QuietPoll(a) =>
               Then(poll(Ctx(net, a), net.inbox[a], net.now),
                    LAMBDA c : (/\ c.out = <<>>
                                /\ c.k.last_handshake_tx = net.kern[a].last_handshake_tx)
                                   => ~c.work_done)]_vars

(***************************************************************************)
(* Claims about GF(2^8) (SpecField).                                       *)
(***************************************************************************)
\* C23: for every pair of bytes mul_safe(a, b) equals mul(a, b), both give
\* 0xC1 for 0x57 and 0x83, mul(mul(a, b), inv(b)) is a for every a and every
\* b other than 0, and inv(0) is 0.
C23_FieldLaws ==
    /\ (fountain.product # <<>> /\ fountain.safe # <<>>)
           => fountain.safe = fountain.product
    /\ (fountain.a = 87 /\ fountain.b = 131)
           => /\ fountain.product \in {<<>>, <<193>>}
              /\ fountain.safe \in {<<>>, <<193>>}
    /\ (fountain.quotient # <<>> /\ fountain.b # 0)
           => fountain.quotient = <<fountain.a>>
    /\ (fountain.inverse # <<>> /\ fountain.b = 0)
           => fountain.inverse = <<0>>

\* The AES vector multiplied both ways and divided back.
C23_Witness ==
    /\ fountain.a = 87
    /\ fountain.b = 131
    /\ fountain.product = <<193>>
    /\ fountain.safe = <<193>>
    /\ fountain.quotient = <<87>>

(***************************************************************************)
(* Claims about what the kernels put on the link (SpecDelay).              *)
(***************************************************************************)
\* The datagram carries the tag and the ciphertext of one encrypt_detached
\* call, made for its header.
Sealed(data) ==
    LET p == from_bytes(FrameHead(data))
        n == p.h.auth_tag[1]
    IN  /\ n \in 1..Len(net.seals)
        /\ decrypt_detached(net.seals, net.seals[n].key, p.h,
                            SubSeq(data, HEADER_SIZE + 1, Len(data))).ok

\* The datagram is a fountain symbol.
IsSymbol(data) ==
    /\ from_bytes(FrameHead(data)).ok
    /\ from_bytes(FrameHead(data)).h.packet_type = "Coded"

\* C24 as stated: every fountain symbol a kernel hands to the transport has
\* been encrypted with the cipher of the destination's session and carries
\* the tag of that encryption.
\* Violated: a node whose session has no cipher yet sends its symbols as
\* they are, with a tag of zeros.
C24_SymbolsSealed ==
    \A a \in DOMAIN net.inbox : \A i \in 1..Len(net.inbox[a]) :
        IsSymbol(net.inbox[a][i].data) => Sealed(net.inbox[a][i].data)

\* A ClientHello or HandshakeInit fragment is on its way to some socket.
HandshakeInFlight ==
    \E a \in DOMAIN net.inbox : \E i \in 1..Len(net.inbox[a]) :
        /\ from_bytes(FrameHead(net.inbox[a][i].data)).ok
        /\ from_bytes(FrameHead(net.inbox[a][i].data)).h.packet_type
               \in {"ClientHello", "HandshakeInit"}

\* C25 as stated: whenever the node's session and the hub's session for the
\* node both hold a cipher and no handshake datagram is in flight, the two
\* ciphers come from one shared secret, however the node's retries interleave
\* with delayed fragments.
\* Violated: a reply to the first ClientHello that arrives after a retry is
\* decapsulated with the retry's key.
C25_KeysAgreeAtRest ==
    (/\ SessionCipher(net.kern[NodeAddr], HubAddr) # <<>>
     /\ SessionCipher(net.kern[HubAddr], NodeAddr) # <<>>
     /\ ~HandshakeInFlight)
        => LinkAgreed

(***************************************************************************)
(* Claims about delivery (SpecTraffic).                                    *)
(***************************************************************************)
\* The generations the kernel at a has started to send.
GenerationsSent(a) == net.kern[a].next_data_gen_id - 1

\* C26 as stated: the receiving kernel pushes at most one decoded payload per
\* generation onto its virtual-NIC queue: between a hub and a node, neither
\* queue ever holds more payloads than the other side has sent generations.
\* Violated: a symbol that arrives after its generation was decoded opens a
\* new decoder, and with K = 1 that decoder decodes at once.
C26_DeliveredOnce ==
    /\ Len(net.kern[HubAddr].tun_rx_queue) <= GenerationsSent(NodeAddr)
    /\ Len(net.kern[NodeAddr].tun_rx_queue) <= GenerationsSent(HubAddr)

(***************************************************************************)
(* Claims about reassembly (SpecReassembly).                               *)
(***************************************************************************)
\* C27 as stated: whatever the order, the losses and the duplicates of the
\* fragments of one payload, every buffer ingest returns equals the payload.
\* Violated: ingest returns the buffer when the fragment that ends the
\* payload arrives, whether or not the bytes before it have.
C27_EmitsWholeOnly ==
    frag.res = "some" => frag.full = frag.whole

(***************************************************************************)
(* Claims about forged symbols (SpecForged).                               *)
(***************************************************************************)
\* The datagram reaches the Coded | Data arm of handle_packet.
IsCodedOrData(d) ==
    LET p == from_bytes(FrameHead(d.data))
    IN  /\ p.ok
        /\ Len(d.data) >= HEADER_SIZE + p.h.payload_len
        /\ p.h.packet_type \in {"Coded", "Data"}

\* The kernel of c holds a session with a cipher for the datagram's source
\* and decrypt_detached succeeds on the datagram.
Authentic(c, d) ==
    LET p == from_bytes(FrameHead(d.data))
    IN  /\ d.src \in DOMAIN c.k.sessions
        /\ c.k.sessions[d.src].cipher # <<>>
        /\ decrypt_detached(c.seals, c.k.sessions[d.src].cipher[1], p.h,
                            SubSeq(d.data, HEADER_SIZE + 1,
                                   HEADER_SIZE + p.h.payload_len)).ok

\* From c to c1 the decoders, the routing table, the virtual-NIC queue and
\* the last-valid-receive time of every session c holds are the same.
Discarded(c, c1) ==
    /\ c1.k.data_decoders = c.k.data_decoders
    /\ c1.k.routes = c.k.routes
    /\ c1.k.tun_rx_queue = c.k.tun_rx_queue
    /\ \A p \in DOMAIN c.k.sessions :
           /\ p \in DOMAIN c1.k.sessions
           /\ c1.k.sessions[p].last_valid_rx_us = c.k.sessions[p].last_valid_rx_us

\* The body of the loop of line 177 for datagram d.
Handled(c, d, now) ==
    IF c.k.is_hub /\ ~is_allowed(d.src) THEN c
    ELSE handle_packet(c, d.data, d.src, now)

\* Along the batch from datagram i on, every Coded or Data datagram that is
\* not authentic is discarded.
RECURSIVE BatchDiscards(_, _, _, _, _)
BatchDiscards(c, inbox, i, n, now) ==
    \/ i > n
    \/ c.k.panicked
    \/ Then(Handled(c, inbox[i], now),
            LAMBDA c1 :
                /\ (IsCodedOrData(inbox[i]) /\ ~Authentic(c, inbox[i]))
                       => Discarded(c, c1)
                /\ BatchDiscards(c1, inbox, i + 1, n, now))

\* C28: a Coded or Data datagram reaches a fountain decoder only if the
\* session of its sender holds a cipher and decrypt_detached succeeds on it.
\* When the session has no cipher or the tag does not verify, the datagram
\* is discarded: the last-valid-receive time of the sessions, the decoders,
\* the routing table and the virtual-NIC queue are as they were.  Checked on
\* every batch a poll is about to handle, datagram by datagram.
C28_ForgedDiscarded ==
    \A a \in {HubAddr, NodeAddr} :
        BatchDiscards(PollLiveness(Ctx(net, a), net.now), net.inbox[a], 1,
                      BatchCount(net.kern[a], net.inbox[a]), net.now)

\* The node, holding no session, polled a Coded datagram of the third party:
\* a session without a cipher was opened for it and the datagram discarded.
C28_Witness ==
    /\ net.forged = <<1>>
    /\ net.inbox[NodeAddr] = <<>>
    /\ MalloryAddr \in DOMAIN net.kern[NodeAddr].sessions
    /\ net.kern[NodeAddr].sessions[MalloryAddr].cipher = <<>>
    /\ DOMAIN net.kern[NodeAddr].data_decoders = {}
    /\ net.kern[NodeAddr].tun_rx_queue = <<>>

\* The bytes p appear as they are somewhere in the datagram.
Carries(data, p) ==
    \E off \in 0..(Len(data) - Len(p)) : SubSeq(data, off + 1, off + Len(p)) = p

\* C29 as stated: no bytes of a payload taken from the application-to-wire
\* queue are handed to the transport unencrypted, whether a fountain encoder
\* carries the payload or not: no datagram on the link holds a payload of an
\* application in clear.
\* Violated: every payload the pacer admits gets an encoder, and the encoder's
\* symbols leave in clear while the session has no cipher.
C29_NoClearPayload ==
    \A a \in DOMAIN net.inbox : \A i \in 1..Len(net.inbox[a]) :
        \A p \in SamplePayloads(NodeAddr) \cup SamplePayloads(HubAddr) :
            ~Carries(net.inbox[a][i].data, p)

(***************************************************************************)
(* Claims about small pools (SpecPool).                                    *)
(***************************************************************************)
\* The kernel at a has an encoder, and its pacer holds the tokens of every
\* symbol the encoder has yet to send.
EncoderFunded(a) ==
    /\ net.kern[a].data_encoder # <<>>
    /\ net.kern[a].pacer.tokens >=
           (PumpTarget(net.kern[a].data_encoder[1].enc)
                - net.kern[a].data_encoder[1].sent_count)
               * (RAPTOR_SYMBOL_SIZE + SYMBOL_OVERHEAD)

\* The poll left the encoder of the kernel at a with more symbols sent, or
\* cleared it.
Advanced(a) ==
    IF net'.kern[a].data_encoder = <<>> THEN TRUE
    ELSE net'.kern[a].data_encoder[1].sent_count > net.kern[a].data_encoder[1].sent_count

\* C30 as stated: every fountain transmission terminates, whatever the
\* capacity of the slab pool: while poll keeps being called and the
\* transport accepts, an active encoder has in the end sent its
\* K + max(1, K/10) symbols and is cleared.  The count of symbols still to
\* send is what must fall: every poll that finds an encoder whose symbols
\* the pacer can pay for sends at least one of them or clears the encoder.
\* Violated: with a pool of at most BATCH_SIZE frames the receive batch holds
\* every frame, no symbol gets a frame, and the poll leaves the kernel as it
\* found it but for the encoder's cursor: so does every poll after it.
C30_EncoderTerminates ==
    [][(EncoderFunded(NodeAddr) /\ Poll(NodeAddr)) => Advanced(NodeAddr)]_vars

AwaitingReply ==
    /\ net.kern[NodeAddr].last_handshake_tx > 0
    /\ \A p \in DOMAIN net.kern[NodeAddr].sessions :
           net.kern[NodeAddr].sessions[p].cipher = <<>>

\* C32 as stated: a HandshakeInit the node rejects leaves its handshake
\* state as it was: while the node waits for the reply to its ClientHello the
\* pending KEM keypair stays available, so that a valid reply that arrives
\* later completes the handshake.
\* Violated: process_server_hello takes the pending keypair before it looks
\* at the payload's length, and a short reply leaves the node with none.
C32_RejectKeepsPending ==
    AwaitingReply => net.kern[NodeAddr].pending_kyber # <<>>

(***************************************************************************)
(* Claims about paced egress (SpecPaced).                                  *)
(***************************************************************************)
\* The fountain symbols among the datagrams `out`.
SymbolsIn(out) ==
    Cardinality({i \in 1..Len(out) :
                     from_bytes(FrameHead(out[i].data)).h.packet_type = "Coded"})

\* The cost of the first n payloads of the queue q: length + 64 each.
RECURSIVE QueueCost(_, _)
QueueCost(q, n) ==
    IF n = 0 THEN 0 ELSE Len(q[n]) + SYMBOL_OVERHEAD + QueueCost(q, n - 1)

\* The poll of the kernel at a took its payloads from the head of the queue,
\* and what it sent and took was paid from the balance the tick left: the
\* balance afterwards is the refreshed one less 84 a symbol and length + 64
\* a payload, and is not negative.
PaidFor(a, c) ==
    LET popped == Len(net.kern[a].tun_tx_queue) - Len(c.k.tun_tx_queue)
    IN  /\ popped >= 0
        /\ c.k.tun_tx_queue = SubSeq(net.kern[a].tun_tx_queue, popped + 1,
                                     Len(net.kern[a].tun_tx_queue))
        /\ c.k.pacer.tokens =
               PacerTick(net.kern[a].pacer, net.now).tokens
                   - SymbolsIn(c.out) * (RAPTOR_SYMBOL_SIZE + SYMBOL_OVERHEAD)
                   - QueueCost(net.kern[a].tun_tx_queue, popped)
        /\ c.k.pacer.tokens >= 0

\* C33: egress is token-gated.  In every poll the tick comes after ingress
\* and before egress; a symbol is sent, or a payload taken from the queue,
\* only when the refreshed balance covers its cost, and the cost is consumed
\* for each; a payload the balance does not cover stays at the head of the
\* queue.
C33_TokenGated ==
    [][\A a \in {HubAddr, NodeAddr} :
           Poll(a) => PaidFor(a, poll(Ctx(net, a), net.inbox[a], net.now))]_vars

\* The gate held a symbol back: the node's poll took the payload from the
\* queue and paid for it, and the balance left was below the cost of the
\* encoder's first symbol, which has not been sent.
C33_Witness ==
    /\ net.queued[NodeAddr] = 1
    /\ net.kern[NodeAddr].tun_tx_queue = <<>>
    /\ net.kern[NodeAddr].data_encoder # <<>>
    /\ net.kern[NodeAddr].data_encoder[1].sent_count = 0
    /\ net.kern[NodeAddr].pacer.tokens > 0
    /\ net.kern[NodeAddr].pacer.tokens < RAPTOR_SYMBOL_SIZE + SYMBOL_OVERHEAD

(***************************************************************************)
(* Claims about the application-to-wire queue (SpecQueue).                 *)
(***************************************************************************)
\* The header of the i-th datagram of `out`.
OutHeader(out, i) == from_bytes(FrameHead(out[i].data)).h

\* Every fountain symbol among the datagrams `out` is of generation g.
SymbolsOf(out, g) ==
    \A i \in 1..Len(out) :
        OutHeader(out, i).packet_type = "Coded" => OutHeader(out, i).gen_id = g

\* The poll found an encoder at work: it took nothing from the queue, made
\* no encoder, and the symbols it sent are that encoder's.
EncoderFirst(k, c) ==
    /\ c.k.tun_tx_queue = k.tun_tx_queue
    /\ c.k.next_data_gen_id = k.next_data_gen_id
    /\ SymbolsOf(c.out, k.data_encoder[1].enc.gen_id)
    /\ c.k.data_encoder # <<>> =>
           c.k.data_encoder[1].enc.gen_id = k.data_encoder[1].enc.gen_id

\* The poll found no encoder: it took `popped` payloads from the head of the
\* queue and made at most one encoder, of the last payload it took and of
\* the next generation id; a node encodes every payload it takes.
FromHead(k, c, popped) ==
    /\ popped >= 0
    /\ c.k.tun_tx_queue = SubSeq(k.tun_tx_queue, popped + 1, Len(k.tun_tx_queue))
    /\ IF c.k.next_data_gen_id = k.next_data_gen_id
       THEN /\ c.k.data_encoder = <<>>
            /\ \A i \in 1..Len(c.out) : OutHeader(c.out, i).packet_type # "Coded"
            /\ ~k.is_hub => popped = 0
       ELSE /\ c.k.next_data_gen_id = (k.next_data_gen_id + 1) % 65536
            /\ popped >= 1
            /\ ~k.is_hub => popped = 1
            /\ SymbolsOf(c.out, k.next_data_gen_id)
            /\ c.k.data_encoder # <<>> =>
                   [c.k.data_encoder[1].enc EXCEPT !.cursor = 0]
                       = FountainEncoderNew(KernelKeystream, k.tun_tx_queue[popped],
                                            RAPTOR_SYMBOL_SIZE, k.next_data_gen_id).enc

\* What the poll that ended as c did with the queue of kernel k.
InOrder(k, c) ==
    IF k.data_encoder # <<>> THEN EncoderFirst(k, c)
    ELSE FromHead(k, c, Len(k.tun_tx_queue) - Len(c.k.tun_tx_queue))

\* C34: at most one encoder is at work at a time and payloads leave in the
\* order send_payload accepted them.  While an encoder has symbols to send
\* no payload is taken from the queue; a poll takes payloads from the head
\* only, encodes one at most, and gives it the generation id after the
\* previous one, modulo 2^16; send_payload adds at the tail.
C34_OneEncoderFifo ==
    [][\A a \in {HubAddr, NodeAddr} :
           /\ Poll(a) => InOrder(net.kern[a], poll(Ctx(net, a), net.inbox[a], net.now))
           /\ net'.kern[a].tun_tx_queue # net.kern[a].tun_tx_queue
                  => \/ Poll(a)
                     \/ \E p \in SamplePayloads(NodeAddr) \cup SamplePayloads(HubAddr) :
                            net'.kern[a].tun_tx_queue
                                = Append(net.kern[a].tun_tx_queue, p)]_vars

\* The node has encoded the two payloads its application queued, one after
\* the other, as generations 1 and 2, and has sent every symbol of both; the
\* hub holds what it decoded of them.
C34_Witness ==
    /\ net.queued[NodeAddr] = 2
    /\ net.kern[NodeAddr].tun_tx_queue = <<>>
    /\ net.kern[NodeAddr].data_encoder = <<>>
    /\ net.kern[NodeAddr].next_data_gen_id = 3
    /\ net.inbox[HubAddr] = <<>>
    /\ Len(net.kern[HubAddr].tun_rx_queue) >= 2

(***************************************************************************)
(* Claims about a handshake message cut and reassembled in order           *)
(* (SpecOrdered).                                                          *)
(***************************************************************************)
\* The datagrams of the message are ceil(|P| / CHUNK_SIZE) of its handshake
\* type, each with total_len = |P|, the offsets 0, CHUNK_SIZE, 2 CHUNK_SIZE ..
FragmentsEmitted ==
    /\ Len(frag.sent) = CeilDiv(Len(frag.whole), CHUNK_SIZE)
    /\ \A i \in 1..Len(frag.sent) :
           /\ from_bytes(FrameHead(frag.sent[i].data)).h.packet_type = frag.ptype
           /\ FromU16BE(DatagramPayload(frag.sent[i].data), 0) = Len(frag.whole)
           /\ FromU16BE(DatagramPayload(frag.sent[i].data), 2) = (i - 1) * CHUNK_SIZE

\* The ingests so far returned "not complete" for every datagram but the
\* last, and the last returned the message and left the assembler as new.
Reassembled ==
    /\ \A i \in 1..Len(frag.results) :
           frag.results[i] = IF i = Len(frag.sent) THEN "some" ELSE "none"
    /\ frag.next > Len(frag.sent) =>
           /\ frag.full = frag.whole
           /\ frag.asm = AssemblerNew

SeenBefore ==
    \E n \in 1..Len(fountain.before.seen_symbols) :
        fountain.before.seen_symbols[n] = fountain.arrived[Len(fountain.arrived)]

\* The matrix had no row left at the last delivery.
FullBefore == fountain.before.count >= Len(fountain.before.matrix)

\* C36: receive_symbol with a symbol id already absorbed, or with any symbol
\* once the matrix holds its L + spare rows, leaves the equation count, the
\* coefficient matrix, the payload matrix and the seen ids as they were; the
\* equation count never exceeds L + spare rows.
C36_RejectedLeavesDecoder ==
    /\ fountain.dec.count <= fountain.dec.extended_size_l + SPARE_ROWS
    /\ Len(fountain.arrived) >= 1 /\ (SeenBefore \/ FullBefore) =>
           /\ fountain.dec.count = fountain.before.count
           /\ fountain.dec.matrix = fountain.before.matrix
           /\ fountain.dec.symbols = fountain.before.symbols
           /\ fountain.dec.seen_symbols = fountain.before.seen_symbols

\* A symbol absorbed before arrived again while rows were left, and later a
\* symbol never heard before arrived when the matrix was full.
C36_Witness ==
    /\ Len(fountain.arrived) = MaxArrivals
    /\ FullBefore
    /\ ~SeenBefore
    /\ fountain.dec.count = fountain.dec.extended_size_l + SPARE_ROWS
    /\ \E i, j \in 1..(MaxArrivals - 1) :
           i < j /\ fountain.arrived[i] = fountain.arrived[j]

(***************************************************************************)
(* Claims about the datagram types a kernel does not handle (SpecKernel).  *)
(***************************************************************************)
\* The packet types the kernel at address a has no handler for.
UnhandledTypes(a) ==
    {"Ack", "Handshake", "KeepAlive", "HandshakeAuth"}
        \cup (IF a = HubAddr THEN {"HandshakeInit"} ELSE {"ClientHello"})

\* A datagram of type t: a whole handshake message in one fragment.
UnhandledDatagram(t) ==
    FragmentDatagram(t, KemPublic(MalloryKeypair), 0, KYBER_PK_LEN_1024)

\* The call that took c to c1 returned and left every cipher, assembler,
\* pending keypair, route, decoder and queue alone and sent nothing; it
\* added no session but the first one of a node, and that one is new.
LeftAlone(c, c1, now) ==
    /\ ~c1.k.panicked
    /\ c1.out = c.out
    /\ c1.seals = c.seals
    /\ c1.installs = c.installs
    /\ c1.k.pending_kyber = c.k.pending_kyber
    /\ c1.k.routes = c.k.routes
    /\ c1.k.data_decoders = c.k.data_decoders
    /\ c1.k.tun_tx_queue = c.k.tun_tx_queue
    /\ c1.k.tun_rx_queue = c.k.tun_rx_queue
    /\ \A p \in DOMAIN c.k.sessions :
           p \in DOMAIN c1.k.sessions /\ c1.k.sessions[p] = c.k.sessions[p]
    /\ \A p \in DOMAIN c1.k.sessions \ DOMAIN c.k.sessions :
           /\ ~c.k.is_hub
           /\ DOMAIN c.k.sessions = {}
           /\ c1.k.sessions[p] = SessionNew(now)

\* C37: a datagram of a type the kernel does not handle in its mode is
\* ignored, whoever sent it: handle_packet changes no cipher, assembler,
\* pending keypair, route, decoder or queue and sends nothing; at most it
\* binds the node's first session.
C37_UnhandledIgnored ==
    \A a \in {HubAddr, NodeAddr} :
        ~net.kern[a].panicked =>
            \A t \in UnhandledTypes(a) : \A peer \in V4Addrs \ {a} :
                LeftAlone(Ctx(net, a),
                          handle_packet(Ctx(net, a), UnhandledDatagram(t), peer, net.now),
                          net.now)

\* C38: a node's session table never holds more than one session, and
\* node_target is the address of the session it holds; once a session is
\* held no step, a datagram from another address included, adds a session
\* or changes node_target.
C38_OneUpstream ==
    [][/\ Cardinality(DOMAIN net'.kern[NodeAddr].sessions) <= 1
       /\ DOMAIN net'.kern[NodeAddr].sessions # {} =>
              /\ net'.kern[NodeAddr].node_target # <<>>
              /\ DOMAIN net'.kern[NodeAddr].sessions
                     = {net'.kern[NodeAddr].node_target[1]}
       /\ DOMAIN net.kern[NodeAddr].sessions # {} =>
              /\ DOMAIN net'.kern[NodeAddr].sessions = DOMAIN net.kern[NodeAddr].sessions
              /\ net'.kern[NodeAddr].node_target = net.kern[NodeAddr].node_target]_vars

\* The node, bound to the hub and holding the cipher of their handshake, was
\* handed a stray datagram from the third party.
C38_Witness ==
    /\ net.injected = 1
    /\ net.inbox[NodeAddr] = <<>>
    /\ DOMAIN net.kern[NodeAddr].sessions = {HubAddr}
    /\ net.kern[NodeAddr].sessions[HubAddr].cipher # <<>>
    /\ net.kern[NodeAddr].node_target = <<HubAddr>>
    /\ net.kern[NodeAddr].panicked

(***************************************************************************)
(* Claims about the decoders a kernel keeps (SpecTraffic).                 *)
(***************************************************************************)
\* Every symbol the kernel at s emitted has been received by the kernel at
\* r: s has no encoder at work and no datagram is on its way to r.
AllReceived(s, r) ==
    /\ net.kern[s].data_encoder = <<>>
    /\ net.inbox[r] = <<>>

\* C39: once every symbol a sender emitted for a generation has been
\* received, the receiver's data_decoders has no entry for that generation.
C39_NoStaleDecoder ==
    \A s, r \in {HubAddr, NodeAddr} :
        s # r /\ AllReceived(s, r) /\ ~net.kern[r].panicked
            => DOMAIN net.kern[r].data_decoders = {}

(***************************************************************************)
(* Claims about rejected fragments (SpecFragment).                         *)
(***************************************************************************)
\* C40: a fragment that ingest rejects with WireFormatError has no effect on
\* the assembler: the next ingest, of any fragment, returns what it would
\* have returned had the rejected fragment never been ingested.
C40_RejectedHasNoEffect ==
    frag.step = "run" /\ frag.res = "WireFormatError" =>
        \A p \in SampleFragments :
            /\ ingest(frag.asm, p).res = ingest(frag.before, p).res
            /\ ingest(frag.asm, p).full = ingest(frag.before, p).full

====
